---- MODULE Spec2Model ----
(***************************************************************************)
(* A model of Render/renderingmesh.py: the RenderingMesh class (a          *)
(* Mesh.Mesh wrapper with a UV map) and its UV projection helpers; of the  *)
(* plugin framework; and of two functions of the renderer emitters.        *)
(*                                                                         *)
(* Geometry is modelled on the integer lattice.  A vector is <<x, y, z>>.  *)
(* Mesh coordinates are single precision floats in the mesh kernel: the    *)
(* operator F32 rounds an integer to the nearest single precision value,   *)
(* so a transform followed by its inverse is not the identity by fiat.     *)
(* Placements are a quarter-turn rotation matrix with a translation, so    *)
(* that their inverse is again an integer matrix.                          *)
(*                                                                         *)
(* Values that the code computes with atan2, asin, hypot and sqrt are kept *)
(* as the exact arguments of those functions (see UV values below).        *)
(*                                                                         *)
(* The specifications of the module:                                       *)
(*   Spec          the method calls on one RenderingMesh object            *)
(*   HelperSpec    the cube helper functions called on their own           *)
(*   FacetSpec     _is_facet_normal_to_vector called on its own            *)
(*   PairSpec      two RenderingMesh objects, compute_uvmap taken in steps *)
(*   PluginSpec    the plugin framework: socket, listener thread, quit     *)
(*                 (PluginFairSpec: with the threads scheduled)            *)
(*   MaterialSpec  _write_material of the Povray and Ospray emitters       *)
(*   MergeSpec     the merge of the light groups of the Ospray emitter     *)
(* Each leaves the variables of the others at NotUsed.                     *)
(***************************************************************************)
EXTENDS Integers, Sequences, FiniteSets, TLC

(***************************************************************************)
(* Vectors and matrices (App.Base.Vector, App.Base.Matrix)                 *)
(***************************************************************************)
Abs(x) == IF x < 0 THEN -x ELSE x

VecAdd(a, b) == <<a[1] + b[1], a[2] + b[2], a[3] + b[3]>>

VecSub(a, b) == <<a[1] - b[1], a[2] - b[2], a[3] - b[3]>>

VecNeg(a) == <<-a[1], -a[2], -a[3]>>

VecScale(k, a) == <<k * a[1], k * a[2], k * a[3]>>

Dot(a, b) == a[1] * b[1] + a[2] * b[2] + a[3] * b[3]

Cross(a, b) ==
    <<a[2] * b[3] - a[3] * b[2], a[3] * b[1] - a[1] * b[3], a[1] * b[2] - a[2] * b[1]>>

MatVec(R, p) == <<Dot(R[1], p), Dot(R[2], p), Dot(R[3], p)>>

Transpose(R) ==
    <<<<R[1][1], R[2][1], R[3][1]>>, <<R[1][2], R[2][2], R[3][2]>>, <<R[1][3], R[2][3], R[3][3]>>>>

ZeroVec == <<0, 0, 0>>

IdentityRot == <<<<1, 0, 0>>, <<0, 1, 0>>, <<0, 0, 1>>>>

\* A quarter turn about the X axis: y -> z, z -> -y.
RotX90 == <<<<1, 0, 0>>, <<0, 0, -1>>, <<0, 1, 0>>>>

\* A quarter turn about the Z axis: x -> y, y -> -x.
RotZ90 == <<<<0, -1, 0>>, <<1, 0, 0>>, <<0, 0, 1>>>>

(***************************************************************************)
(* Single precision storage of mesh points                                 *)
(***************************************************************************)
\* Every integer of magnitude up to 2^24 is a single precision float.
F32Exact == 2 ^ 24

\* x rounded to the nearest multiple of u, ties to the even multiple.
RoundToEven(x, u) ==
    LET a == Abs(x)
        q == a \div u
        r == a % u
        up == (2 * r > u) \/ (2 * r = u /\ q % 2 = 1)
        mag == IF up THEN (q + 1) * u ELSE q * u
    IN  IF x < 0 THEN -mag ELSE mag

\* The single precision float nearest to the integer x (|x| < 2^26).
F32(x) ==
    IF Abs(x) <= F32Exact THEN x
    ELSE IF Abs(x) <= 2 * F32Exact THEN RoundToEven(x, 2)
    ELSE RoundToEven(x, 4)

F32Vec(p) == <<F32(p[1]), F32(p[2]), F32(p[3])>>

(***************************************************************************)
(* Placements (App.Base.Placement): rotation R and translation t           *)
(***************************************************************************)
Placement(R, t) == [R |-> R, t |-> t]

IdentityPlacement == Placement(IdentityRot, ZeroVec)

\* placement.inverse(): p |-> R^T (p - t)
PlacementInverse(pl) ==
    Placement(Transpose(pl.R), VecNeg(MatVec(Transpose(pl.R), pl.t)))

\* placement.Matrix applied to a point, in double precision (exact here).
Apply(pl, p) == VecAdd(MatVec(pl.R, p), pl.t)

(***************************************************************************)
(* Mesh.Mesh: Points is the ordered point array, Facets the ordered facet  *)
(* array, each facet three indices into Points.                            *)
(***************************************************************************)
EmptyMesh == [Points |-> <<>>, Facets |-> <<>>]

\* mesh.Facets: each facet with the coordinates of its three points.
MeshFacets(m) ==
    [k \in DOMAIN m.Facets |->
        <<m.Points[m.Facets[k][1]], m.Points[m.Facets[k][2]], m.Points[m.Facets[k][3]]>>]

\* mesh.transform(matrix): every point is mapped and stored in single precision.
MeshTransform(m, pl) ==
    [m EXCEPT !.Points = [i \in DOMAIN m.Points |-> F32Vec(Apply(pl, m.Points[i]))]]

\* The first index of x in seq.
IndexOf(seq, x) ==
    CHOOSE i \in DOMAIN seq : seq[i] = x /\ \A j \in 1..(i - 1) : seq[j] # x

\* k-th point of the facets taken in order, three per facet.
FlatPoint(fs, k) == fs[((k - 1) \div 3) + 1][((k - 1) % 3) + 1]

RECURSIVE DedupFrom(_, _, _)
DedupFrom(fs, k, acc) ==
    IF k > 3 * Len(fs) THEN acc
    ELSE LET p == FlatPoint(fs, k)
         IN  DedupFrom(fs, k + 1,
                 IF \E i \in DOMAIN acc : acc[i] = p THEN acc ELSE Append(acc, p))

\* Mesh.Mesh(facets) with three points of its own for every facet.
MeshFromFacetsUnmerged(fs) ==
    [Points |-> [k \in 1..(3 * Len(fs)) |-> FlatPoint(fs, k)],
     Facets |-> [k \in DOMAIN fs |-> <<3 * k - 2, 3 * k - 1, 3 * k>>]]

\* Mesh.Mesh(facets): equal points are merged, points keep first-seen order.
MeshFromFacets(fs) ==
    LET pts == DedupFrom(fs, 1, <<>>)
    IN  [Points |-> pts,
         Facets |-> [k \in DOMAIN fs |->
             <<IndexOf(pts, fs[k][1]), IndexOf(pts, fs[k][2]), IndexOf(pts, fs[k][3])>>]]

ShiftFacet(f, n) == <<f[1] + n, f[2] + n, f[3] + n>>

\* The point array with p added unless a point at p is already in it.
GetOrAdd(points, p) ==
    IF \E i \in DOMAIN points : points[i] = p THEN points ELSE Append(points, p)

\* Mesh.addFacet(p1, p2, p3): the facet is appended on the points already at
\* p1, p2, p3, and on new points where there is none.
MeshAddFacet(m, tri) ==
    LET pts == GetOrAdd(GetOrAdd(GetOrAdd(m.Points, tri[1]), tri[2]), tri[3])
    IN  [Points |-> pts,
         Facets |-> Append(m.Facets,
             <<IndexOf(pts, tri[1]), IndexOf(pts, tri[2]), IndexOf(pts, tri[3])>>)]

\* addMesh merging the points of sub with the points already at their place.
RECURSIVE AddMeshMerging(_, _)
AddMeshMerging(m, sub) ==
    IF sub.Facets = <<>> THEN m
    ELSE AddMeshMerging(MeshAddFacet(m, MeshFacets(sub)[1]),
             MeshFromFacets(Tail(MeshFacets(sub))))

\* mesh.addMesh(sub): points and facets of sub are appended, nothing is merged.
AddMesh(m, sub) ==
    IF sub.Points = <<>> \/ sub.Facets = <<>> THEN m
    ELSE [Points |-> m.Points \o sub.Points,
          Facets |-> m.Facets \o
              [k \in DOMAIN sub.Facets |-> ShiftFacet(sub.Facets[k], Len(m.Points))]]

(***************************************************************************)
(* UV values (App.Base.Vector2d).  A planar value is the exact fraction    *)
(* pair (u/den, v/den).  The cylindric and spheric values keep the exact   *)
(* arguments of atan2, hypot and asin in place of their float results.     *)
(***************************************************************************)
\* The unit factor between mesh coordinates and UV coordinates.
UnitScale == 1000

\* p.Vector / 1000
ScaledPoint(p) == [num |-> p, den |-> UnitScale]

Vector2d(u, v, den) == [kind |-> "planar", u |-> u, v |-> v, den |-> den]

(***************************************************************************)
(* Cube uvmap helpers                                                      *)
(***************************************************************************)
\* The faces in the order of the if chain of _compute_uv_from_unitcube.
UnitCubeFaceChainOrder == <<"XPLUS", "YPLUS", "XMINUS", "YMINUS", "ZPLUS", "ZMINUS">>

\* class _UnitCubeFaceEnum, in definition (iteration) order.
UnitCubeFaceEnum == <<"XPLUS", "XMINUS", "YPLUS", "YMINUS", "ZPLUS", "ZMINUS">>

\* facet.Normal up to its positive length: only signs and the order of the
\* magnitudes of the components are read from it.
FacetNormal(f) == Cross(VecSub(f[2], f[1]), VecSub(f[3], f[1]))

\* _intersect_unitcube_face choosing X as soon as X is no less than Y.
intersect_unitcube_face_x_over_y(direction) ==
    LET dabs == <<Abs(direction[1]), Abs(direction[2]), Abs(direction[3])>>
    IN  IF dabs[1] >= dabs[2]
        THEN (IF direction[1] >= 0 THEN "XPLUS" ELSE "XMINUS")
        ELSE IF dabs[2] >= dabs[1] /\ dabs[2] >= dabs[3]
        THEN (IF direction[2] >= 0 THEN "YPLUS" ELSE "YMINUS")
        ELSE (IF direction[3] >= 0 THEN "ZPLUS" ELSE "ZMINUS")

\* _intersect_unitcube_face with the test of Y before the test of X.
intersect_unitcube_face_y_first(direction) ==
    LET dabs == <<Abs(direction[1]), Abs(direction[2]), Abs(direction[3])>>
    IN  IF dabs[2] >= dabs[1] /\ dabs[2] >= dabs[3]
        THEN (IF direction[2] >= 0 THEN "YPLUS" ELSE "YMINUS")
        ELSE IF dabs[1] >= dabs[2] /\ dabs[1] >= dabs[3]
        THEN (IF direction[1] >= 0 THEN "XPLUS" ELSE "XMINUS")
        ELSE (IF direction[3] >= 0 THEN "ZPLUS" ELSE "ZMINUS")

intersect_unitcube_face(direction) ==
    LET dabs == <<Abs(direction[1]), Abs(direction[2]), Abs(direction[3])>>
    IN  IF dabs[1] >= dabs[2] /\ dabs[1] >= dabs[3]
        THEN (IF direction[1] >= 0 THEN "XPLUS" ELSE "XMINUS")
        ELSE IF dabs[2] >= dabs[1] /\ dabs[2] >= dabs[3]
        THEN (IF direction[2] >= 0 THEN "YPLUS" ELSE "YMINUS")
        ELSE (IF direction[3] >= 0 THEN "ZPLUS" ELSE "ZMINUS")

\* _compute_uv_from_unitcube with the -X face unfolded as the +X face.
compute_uv_from_unitcube_unmirrored(point, face) ==
    CASE face = "XPLUS" -> Vector2d(point.num[2], point.num[3], point.den)
      [] face = "YPLUS" -> Vector2d(-point.num[1], point.num[3], point.den)
      [] face = "XMINUS" -> Vector2d(point.num[2], point.num[3], point.den)
      [] face = "YMINUS" -> Vector2d(point.num[1], point.num[3], point.den)
      [] face = "ZPLUS" -> Vector2d(point.num[1], point.num[2], point.den)
      [] face = "ZMINUS" -> Vector2d(point.num[1], -point.num[2], point.den)

compute_uv_from_unitcube(point, face) ==
    CASE face = "XPLUS" -> Vector2d(point.num[2], point.num[3], point.den)
      [] face = "YPLUS" -> Vector2d(-point.num[1], point.num[3], point.den)
      [] face = "XMINUS" -> Vector2d(-point.num[2], point.num[3], point.den)
      [] face = "YMINUS" -> Vector2d(point.num[1], point.num[3], point.den)
      [] face = "ZPLUS" -> Vector2d(point.num[1], point.num[2], point.den)
      [] face = "ZMINUS" -> Vector2d(point.num[1], -point.num[2], point.den)

(***************************************************************************)
(* Other uvmap helpers                                                     *)
(***************************************************************************)
RECURSIVE VecSum(_, _)
VecSum(points, k) ==
    IF k = 0 THEN ZeroVec ELSE VecAdd(VecSum(points, k - 1), points[k])

\* The barycenter as the exact fraction num / den.
compute_barycenter(points) ==
    LET length == Len(points)
    IN  IF length = 0 THEN [num |-> ZeroVec, den |-> 1]
        ELSE [num |-> VecSum(points, length), den |-> length]

\* p - origin, as the fraction num / den
VecMinusOrigin(p, origin) ==
    [num |-> VecSub(VecScale(origin.den, p), origin.num), den |-> origin.den]

\* The greatest r of lo..hi with r * r <= n, by bisection.
RECURSIVE ISqrtIn(_, _, _)
ISqrtIn(n, lo, hi) ==
    IF lo = hi THEN lo
    ELSE LET mid == (lo + hi + 1) \div 2
         IN  IF mid * mid <= n THEN ISqrtIn(n, mid, hi) ELSE ISqrtIn(n, lo, mid - 1)

\* The integer part of a square root (n < 2^31).
ISqrt(n) == ISqrtIn(n, 0, IF n < 46340 THEN n ELSE 46340)

\* tolerance = 1e-5, as its inverse
ToleranceInv == 100000

\* Squares beyond the integers of the checker: <<hi, lo>> is hi * 10^8 + lo,
\* 0 <= lo < 10^8.  WideSquare(x) is x * x, for |x| < 4 * 10^8.
WideSquare(x) ==
    LET a == Abs(x) \div 10000
        b == Abs(x) % 10000
        m == 2 * a * b
        lo == (m % 10000) * 10000 + b * b
    IN  <<a * a + (m \div 10000) + (lo \div 100000000), lo % 100000000>>

WideAdd(p, q) ==
    <<p[1] + q[1] + ((p[2] + q[2]) \div 100000000), (p[2] + q[2]) % 100000000>>

WideLeq(p, q) == p[1] < q[1] \/ (p[1] = q[1] /\ p[2] <= q[2])

\* math.isclose(vec.normalize().dot(z), 0.0, abs_tol=tolerance), z the unit
\* Z vector: |vec.z| / |vec| <= tolerance, as
\* (vec.z / tolerance)^2 <= vec.x^2 + vec.y^2 + vec.z^2.
IsCloseZeroDotZ(vec) ==
    WideLeq(WideSquare(Abs(vec[3]) * ToleranceInv),
            WideAdd(WideAdd(WideSquare(vec[1]), WideSquare(vec[2])), WideSquare(vec[3])))

\* normalize() raises on a null vector.
CanNormalize(f) == VecSub(f[2], f[1]) # ZeroVec /\ VecSub(f[3], f[1]) # ZeroVec

\* _is_facet_normal_to_vector with the test of the first edge alone.
is_facet_normal_to_vector_first_edge(f) == IsCloseZeroDotZ(VecSub(f[2], f[1]))

is_facet_normal_to_vector(f) ==
    /\ IsCloseZeroDotZ(VecSub(f[2], f[1]))
    /\ IsCloseZeroDotZ(VecSub(f[3], f[1]))

(***************************************************************************)
(* class RenderingMesh                                                     *)
(*   mesh              self.__mesh                                         *)
(*   meshid            the identity of the Mesh.Mesh object in self.__mesh *)
(*   hasorig           self.__originalmesh and self.__originalplacement    *)
(*                     exist (they are set only when a mesh is given)      *)
(*   originalmesh      self.__originalmesh                                 *)
(*   originalplacement self.__originalplacement                            *)
(*   uvmap             self.__uvmap: None, or a tuple of UV values         *)
(***************************************************************************)
NoUvmap == [present |-> FALSE, val |-> <<>>]

Uvmap(seq) == [present |-> TRUE, val |-> seq]

\* __init__(mesh, uvmap, placement) with a mesh
RenderingMeshInit(mesh, uvmap, placement, id) ==
    [mesh |-> mesh,
     meshid |-> id,
     hasorig |-> TRUE,
     originalmesh |-> MeshTransform(mesh, PlacementInverse(placement)),
     originalplacement |-> placement,
     uvmap |-> uvmap]

\* __init__(None, uvmap): the else branch
RenderingMeshInitNoMesh(uvmap, id) ==
    [mesh |-> EmptyMesh,
     meshid |-> id,
     hasorig |-> FALSE,
     originalmesh |-> EmptyMesh,
     originalplacement |-> IdentityPlacement,
     uvmap |-> uvmap]

\* The outcome of a method call: the object afterwards, "ok" or the
\* exception raised, and the projection strategy that was entered.
Return(self, dispatched) == [self |-> self, result |-> "ok", dispatched |-> dispatched]

Raise(self, exception, dispatched) ==
    [self |-> self, result |-> exception, dispatched |-> dispatched]

\* The buckets with a facet added to every face on an axis where its normal
\* is greatest, on the side of its sign.
FaceFacetsEveryDominant(originalmesh, cubeface) ==
    LET Component(d) ==
            CASE cubeface \in {"XPLUS", "XMINUS"} -> d[1]
              [] cubeface \in {"YPLUS", "YMINUS"} -> d[2]
              [] cubeface \in {"ZPLUS", "ZMINUS"} -> d[3]
        Positive == cubeface \in {"XPLUS", "YPLUS", "ZPLUS"}
        OnFace(facet) ==
            LET d == FacetNormal(facet)
            IN  /\ \A j \in 1..3 : Abs(Component(d)) >= Abs(d[j])
                /\ IF Positive THEN Component(d) >= 0 ELSE Component(d) < 0
    IN  SelectSeq(MeshFacets(originalmesh), OnFace)

\* face_facets[cubeface] after the first loop of _compute_uvmap_cube: the
\* facets of the unplaced original mesh that fall on a cube face, in order.
FaceFacets(originalmesh, cubeface) ==
    LET OnFace(facet) == intersect_unitcube_face(FacetNormal(facet)) = cubeface
    IN  SelectSeq(MeshFacets(originalmesh), OnFace)

\* The loop without "facemesh.transform(self.__originalplacement.Matrix)".
RECURSIVE CubeMergeUnplaced(_, _, _, _)
CubeMergeUnplaced(self, k, mesh, uvmap) ==
    IF k > Len(UnitCubeFaceEnum) THEN [mesh |-> mesh, uvmap |-> uvmap]
    ELSE LET cubeface == UnitCubeFaceEnum[k]
             facemesh == MeshFromFacets(FaceFacets(self.originalmesh, cubeface))
             facemesh_uvmap ==
                 [i \in DOMAIN facemesh.Points |->
                     compute_uv_from_unitcube(ScaledPoint(facemesh.Points[i]), cubeface)]
         IN  CubeMergeUnplaced(self, k + 1, AddMesh(mesh, facemesh),
                 uvmap \o facemesh_uvmap)

\* The loop "for cubeface, facets in face_facets.items()", from face k on.
RECURSIVE CubeMerge(_, _, _, _)
CubeMerge(self, k, mesh, uvmap) ==
    IF k > Len(UnitCubeFaceEnum) THEN [mesh |-> mesh, uvmap |-> uvmap]
    ELSE LET cubeface == UnitCubeFaceEnum[k]
             facemesh == MeshFromFacets(FaceFacets(self.originalmesh, cubeface))
             facemesh_uvmap ==
                 [i \in DOMAIN facemesh.Points |->
                     compute_uv_from_unitcube(ScaledPoint(facemesh.Points[i]), cubeface)]
         IN  CubeMerge(self, k + 1,
                 AddMesh(mesh, MeshTransform(facemesh, self.originalplacement)),
                 uvmap \o facemesh_uvmap)

\* compute_uvmap_cube without the assignment "self.__mesh = mesh".
compute_uvmap_cube_keeps_mesh(self, id) ==
    IF ~self.hasorig THEN Raise(self, "AttributeError", "cube")
    ELSE LET new == CubeMerge(self, 1, EmptyMesh, <<>>)
         IN  Return([self EXCEPT !.uvmap = Uvmap(new.uvmap)], "cube")

\* compute_uvmap_cube refilling the Mesh object of self.__mesh in place.
compute_uvmap_cube_in_place(self, id) ==
    IF ~self.hasorig THEN Raise(self, "AttributeError", "cube")
    ELSE LET new == CubeMerge(self, 1, EmptyMesh, <<>>)
         IN  Return([self EXCEPT !.mesh = new.mesh, !.uvmap = Uvmap(new.uvmap)], "cube")

compute_uvmap_cube(self, id) ==
    IF ~self.hasorig THEN Raise(self, "AttributeError", "cube")
    ELSE LET new == CubeMerge(self, 1, EmptyMesh, <<>>)
         IN  Return([self EXCEPT !.mesh = new.mesh, !.meshid = id,
                                 !.uvmap = Uvmap(new.uvmap)], "cube")

\* The UV value of one point of the spheric projection, v = p - origin:
\* Vector2d(0.5 + atan2(v.x, v.y) / 2pi, 0.5 + asin(v.z / |v|) / pi)
\*     * (|v| / 1000 * pi), kept as v.
SphereUV(v) == [kind |-> "sphere", v |-> v.num, vden |-> v.den, den |-> UnitScale]

\* compute_uvmap_sphere filling self.__uvmap entry by entry: the entries
\* before a point at the barycenter are stored when the division fails.
compute_uvmap_sphere_stepwise(self, id) ==
    IF ~self.hasorig THEN Raise(self, "AttributeError", "sphere")
    ELSE LET points == self.originalmesh.Points
             origin == compute_barycenter(points)
             vectors == [i \in DOMAIN points |-> VecMinusOrigin(points[i], origin)]
         IN  IF \E i \in DOMAIN vectors : vectors[i].num = ZeroVec
             THEN LET first == CHOOSE i \in DOMAIN vectors :
                                  /\ vectors[i].num = ZeroVec
                                  /\ \A j \in 1..(i - 1) : vectors[j].num # ZeroVec
                  IN  Raise([self EXCEPT !.uvmap =
                          Uvmap([i \in 1..(first - 1) |-> SphereUV(vectors[i])])],
                          "ZeroDivisionError", "sphere")
             ELSE Return([self EXCEPT !.uvmap =
                     Uvmap([i \in DOMAIN vectors |-> SphereUV(vectors[i])])], "sphere")

\* compute_uvmap_sphere putting the placed original mesh in place, as the two
\* other strategies do.
compute_uvmap_sphere_placed(self, id) ==
    IF ~self.hasorig THEN Raise(self, "AttributeError", "sphere")
    ELSE LET points == self.originalmesh.Points
             origin == compute_barycenter(points)
             vectors == [i \in DOMAIN points |-> VecMinusOrigin(points[i], origin)]
         IN  IF \E i \in DOMAIN vectors : vectors[i].num = ZeroVec
             THEN Raise(self, "ZeroDivisionError", "sphere")
             ELSE Return([self EXCEPT
                     !.mesh = MeshTransform(self.originalmesh, self.originalplacement),
                     !.meshid = id,
                     !.uvmap = Uvmap([i \in DOMAIN vectors |-> SphereUV(vectors[i])])],
                     "sphere")

compute_uvmap_sphere(self, id) ==
    IF ~self.hasorig THEN Raise(self, "AttributeError", "sphere")
    ELSE LET points == self.originalmesh.Points
             origin == compute_barycenter(points)
             vectors == [i \in DOMAIN points |-> VecMinusOrigin(points[i], origin)]
         IN  IF \E i \in DOMAIN vectors : vectors[i].num = ZeroVec
             THEN Raise(self, "ZeroDivisionError", "sphere")
             ELSE Return([self EXCEPT !.uvmap =
                     Uvmap([i \in DOMAIN vectors |-> SphereUV(vectors[i])])], "sphere")

\* avg_radius = sum(hypot(p.x, p.y)) / len(points), kept as the arguments
\* (p.x, p.y) of the summed radii and their count.
AvgRadius(points) ==
    [hypot |-> [i \in DOMAIN points |-> <<points[i][1], points[i][2]>>],
     n |-> Len(points)]

\* The radii math.hypot(x, y) of avg_radius that are whole numbers, summed;
\* a radius that is not whole counts for its integer part.
RECURSIVE SumHypot(_)
SumHypot(hypot) ==
    IF hypot = <<>> THEN 0
    ELSE ISqrt(hypot[1][1] * hypot[1][1] + hypot[1][2] * hypot[1][2])
             + SumHypot(Tail(hypot))

\* The value of avg_radius as the fraction sum / len, exact when every
\* summed radius is a whole number.
AvgRadiusValue(avg_radius) == [num |-> SumHypot(avg_radius.hypot), den |-> avg_radius.n]

\* The regular value scaled by the radius of the point itself:
\* Vector2d(atan2(p.x, p.y) * hypot(p.x, p.y), p.z) * 0.001
CylinderUVOwnRadius(p, avg_radius) ==
    [kind |-> "cylinder", atan2 |-> <<p[1], p[2]>>,
     radius |-> [hypot |-> <<<<p[1], p[2]>>>>, n |-> 1],
     z |-> p[3], den |-> UnitScale]

\* Vector2d(atan2(p.x, p.y) * avg_radius, p.z) * 0.001
CylinderUV(p, avg_radius) ==
    [kind |-> "cylinder", atan2 |-> <<p[1], p[2]>>, radius |-> avg_radius,
     z |-> p[3], den |-> UnitScale]

\* The cap value taken along the axis: Vector2d(p.x / 1000, p.z / 1000)
CapUVAxial(p) == Vector2d(p[1], p[3], UnitScale)

\* Vector2d(p.x / 1000, p.y / 1000)
CapUV(p) == Vector2d(p[1], p[2], UnitScale)

\* The two lists with a test of their own each: a facet is regular when
\* none of its two edges is normal to Z, z-normal when both are.
CylinderFacesTwoTests(originalmesh) ==
    LET facets == MeshFacets(originalmesh)
        IsZNormal(facet) == is_facet_normal_to_vector(facet)
        IsRegular(facet) ==
            /\ ~IsCloseZeroDotZ(VecSub(facet[2], facet[1]))
            /\ ~IsCloseZeroDotZ(VecSub(facet[3], facet[1]))
    IN  <<SelectSeq(facets, IsRegular), SelectSeq(facets, IsZNormal)>>

\* faces after the first loop of _compute_uvmap_cylinder: the regular
\* facets (faces[0]) and the z-normal facets (faces[1]), in order.
CylinderFaces(originalmesh) ==
    LET facets == MeshFacets(originalmesh)
        IsZNormal(facet) == is_facet_normal_to_vector(facet)
        IsRegular(facet) == ~is_facet_normal_to_vector(facet)
    IN  <<SelectSeq(facets, IsRegular), SelectSeq(facets, IsZNormal)>>

\* _compute_uvmap_cylinder with the z-normal sub-mesh handled before the
\* regular one.
compute_uvmap_cylinder_caps_first(self, id) ==
    IF ~self.hasorig THEN Raise(self, "AttributeError", "cylinder")
    ELSE LET facets == MeshFacets(self.originalmesh)
             faces == CylinderFaces(self.originalmesh)
         IN  IF \E k \in DOMAIN facets : ~CanNormalize(facets[k])
             THEN Raise(self, "FreeCADError", "cylinder")
             ELSE LET regular_mesh == MeshFromFacets(faces[1])
                      points == regular_mesh.Points
                      z_mesh == MeshFromFacets(faces[2])
                  IN  IF Len(points) = 0
                      THEN Raise(self, "ZeroDivisionError", "cylinder")
                      ELSE LET avg_radius == AvgRadius(points)
                               uvmap ==
                                   [i \in DOMAIN z_mesh.Points |-> CapUV(z_mesh.Points[i])]
                                   \o [i \in DOMAIN points |-> CylinderUV(points[i], avg_radius)]
                               mesh ==
                                   AddMesh(
                                       AddMesh(EmptyMesh,
                                           MeshTransform(z_mesh, self.originalplacement)),
                                       MeshTransform(regular_mesh, self.originalplacement))
                           IN  Return([self EXCEPT !.mesh = mesh, !.meshid = id,
                                                   !.uvmap = Uvmap(uvmap)], "cylinder")

compute_uvmap_cylinder(self, id) ==
    IF ~self.hasorig THEN Raise(self, "AttributeError", "cylinder")
    ELSE LET facets == MeshFacets(self.originalmesh)
             faces == CylinderFaces(self.originalmesh)
         IN  IF \E k \in DOMAIN facets : ~CanNormalize(facets[k])
             THEN Raise(self, "FreeCADError", "cylinder")
             ELSE LET regular_mesh == MeshFromFacets(faces[1])
                      points == regular_mesh.Points
                      z_mesh == MeshFromFacets(faces[2])
                  IN  IF Len(points) = 0
                      THEN Raise(self, "ZeroDivisionError", "cylinder")
                      ELSE LET avg_radius == AvgRadius(points)
                               uvmap ==
                                   [i \in DOMAIN points |-> CylinderUV(points[i], avg_radius)]
                                   \o [i \in DOMAIN z_mesh.Points |-> CapUV(z_mesh.Points[i])]
                               mesh ==
                                   AddMesh(
                                       AddMesh(EmptyMesh,
                                           MeshTransform(regular_mesh, self.originalplacement)),
                                       MeshTransform(z_mesh, self.originalplacement))
                           IN  Return([self EXCEPT !.mesh = mesh, !.meshid = id,
                                                   !.uvmap = Uvmap(uvmap)], "cylinder")

\* The default taken for the spheric strategy.
DefaultProjectionSpherical(projection) ==
    IF projection = "None" THEN "Spherical" ELSE projection

\* projection = "Cubic" if projection is None else projection
DefaultProjection(projection) == IF projection = "None" THEN "Cubic" ELSE projection

\* compute_uvmap with the cubic strategy as its else branch.
compute_uvmap_else_cube(self, projection, id) ==
    LET proj == DefaultProjection(projection)
    IN  IF proj = "Spherical" THEN compute_uvmap_sphere(self, id)
        ELSE IF proj = "Cylindric" THEN compute_uvmap_cylinder(self, id)
        ELSE compute_uvmap_cube(self, id)

compute_uvmap(self, projection, id) ==
    LET proj == DefaultProjection(projection)
    IN  IF proj = "Cubic" THEN compute_uvmap_cube(self, id)
        ELSE IF proj = "Spherical" THEN compute_uvmap_sphere(self, id)
        ELSE IF proj = "Cylindric" THEN compute_uvmap_cylinder(self, id)
        ELSE Raise(self, "ValueError", "none")

\* has_uvmap as "has a UV map with one entry for each point of the mesh".
has_uvmap_aligned(self) ==
    self.uvmap.present /\ Len(self.uvmap.val) = Len(self.mesh.Points)

\* return self.__uvmap is not None
has_uvmap(self) == self.uvmap.present

\* addFacet(p1, p2, p3)
addFacet(self, tri) == [self EXCEPT !.mesh = MeshAddFacet(self.mesh, tri)]

\* transform applied to the unplaced original mesh as well.
transform_with_original(self, matrix) ==
    [self EXCEPT !.mesh = MeshTransform(self.mesh, matrix),
                 !.originalmesh = MeshTransform(self.originalmesh, matrix)]

\* transform(matrix)
transform(self, matrix) == [self EXCEPT !.mesh = MeshTransform(self.mesh, matrix)]

\* rotate(angle_x, angle_y, angle_z), the angles in quarter turns
RECURSIVE Turns(_, _, _)
Turns(m, R, n) == IF n = 0 THEN m ELSE Turns(MeshTransform(m, Placement(R, ZeroVec)), R, n - 1)

RotY90 == <<<<0, 0, 1>>, <<0, 1, 0>>, <<-1, 0, 0>>>>

rotate(self, angle_x, angle_y, angle_z) ==
    [self EXCEPT !.mesh =
        Turns(Turns(Turns(self.mesh, RotX90, angle_x), RotY90, angle_y), RotZ90, angle_z)]

\* copy(): RenderingMesh(self.__mesh.copy(), self.__uvmap)
copy(self, id) == RenderingMeshInit(self.mesh, self.uvmap, IdentityPlacement, id)

(***************************************************************************)
(* The inputs of the model                                                 *)
(***************************************************************************)
\* A tetrahedron on the three axes: three faces on the coordinate planes and
\* one face of normal (1, 1, 1); every point is shared by three faces.
Tetra ==
    MeshFromFacets(<<
        <<<<0, 0, 0>>, <<0, 3, 0>>, <<3, 0, 0>>>>,
        <<<<0, 0, 0>>, <<3, 0, 0>>, <<0, 0, 3>>>>,
        <<<<0, 0, 0>>, <<0, 0, 3>>, <<0, 3, 0>>>>,
        <<<<3, 0, 0>>, <<0, 3, 0>>, <<0, 0, 3>>>> >>)

\* A flat fan in the plane z = 0 around the origin, its barycenter.
Disc ==
    MeshFromFacets(<<
        <<<<0, 0, 0>>, <<3, 0, 0>>, <<0, 3, 0>>>>,
        <<<<0, 0, 0>>, <<0, 3, 0>>, <<-3, 0, 0>>>>,
        <<<<0, 0, 0>>, <<-3, 0, 0>>, <<0, -3, 0>>>>,
        <<<<0, 0, 0>>, <<0, -3, 0>>, <<3, 0, 0>>>> >>)

\* A prism along Z on a triangle whose corners are at distance 5 of the axis:
\* two caps and three walls of two facets each.
Prism ==
    MeshFromFacets(<<
        <<<<5, 0, 0>>, <<-3, -4, 0>>, <<0, 5, 0>>>>,
        <<<<5, 0, 2>>, <<0, 5, 2>>, <<-3, -4, 2>>>>,
        <<<<5, 0, 0>>, <<0, 5, 0>>, <<0, 5, 2>>>>,
        <<<<5, 0, 0>>, <<0, 5, 2>>, <<5, 0, 2>>>>,
        <<<<0, 5, 0>>, <<-3, -4, 0>>, <<-3, -4, 2>>>>,
        <<<<0, 5, 0>>, <<-3, -4, 2>>, <<0, 5, 2>>>>,
        <<<<-3, -4, 0>>, <<5, 0, 0>>, <<5, 0, 2>>>>,
        <<<<-3, -4, 0>>, <<5, 0, 2>>, <<-3, -4, 2>>>> >>)

\* Two facets on a common edge whose third points are one unit apart.
Sliver ==
    MeshFromFacets(<<
        <<<<0, 0, 0>>, <<0, 3, 0>>, <<0, 0, 3>>>>,
        <<<<1, 0, 0>>, <<0, 3, 0>>, <<0, 0, 3>>>> >>)

\* The two facets of a quadrilateral a, b, c, d.
Quad(a, b, c, d) == <<<<a, b, c>>, <<a, c, d>>>>

\* The corner of the cube of side 1000 around the origin on the given sides.
Corner(sx, sy, sz) == <<500 * sx, 500 * sy, 500 * sz>>

\* That cube: 8 points, and 12 facets with their normals outwards.
Cube ==
    MeshFromFacets(
        Quad(Corner(1, -1, -1), Corner(1, 1, -1), Corner(1, 1, 1), Corner(1, -1, 1))
        \o Quad(Corner(-1, -1, -1), Corner(-1, -1, 1), Corner(-1, 1, 1), Corner(-1, 1, -1))
        \o Quad(Corner(-1, 1, -1), Corner(-1, 1, 1), Corner(1, 1, 1), Corner(1, 1, -1))
        \o Quad(Corner(-1, -1, -1), Corner(1, -1, -1), Corner(1, -1, 1), Corner(-1, -1, 1))
        \o Quad(Corner(-1, -1, 1), Corner(1, -1, 1), Corner(1, 1, 1), Corner(-1, 1, 1))
        \o Quad(Corner(-1, -1, -1), Corner(-1, 1, -1), Corner(1, 1, -1), Corner(1, -1, -1)))

InputMeshes == {Tetra, Disc, Prism, Sliver, Cube}

\* The placements an object is built with: none, a shift along Z, a quarter
\* turn about X with a shift, and a shift beyond the exact range of F32.
FarShift == Placement(IdentityRot, <<-F32Exact, 0, 0>>)

InputPlacements ==
    {IdentityPlacement,
     Placement(IdentityRot, <<0, 0, 7>>),
     Placement(RotX90, <<1, 0, 0>>),
     FarShift}

\* The values compute_uvmap is called with; "None" is Python's None.
Projections == {"None", "Cubic", "Spherical", "Cylindric", "Planar", "cubic"}

SupportedProjections == {"Cubic", "Spherical", "Cylindric"}

\* The facet addFacet is called with.
NewFacets == {<<<<0, 0, 0>>, <<1, 0, 0>>, <<0, 1, 0>>>>}

\* The matrix transform is called with: a quarter turn about Z and a shift.
Matrices == {Placement(RotZ90, <<0, 0, 1>>)}

\* The angles rotate is called with, in quarter turns.
Rotations == {<<1, 0, 0>>}

\* The number of method calls of one behaviour.
MaxCalls == 3

(***************************************************************************)
(* The state: one RenderingMesh object and the record of the last call.    *)
(***************************************************************************)
VARIABLES
    rm,     \* the RenderingMesh object
    input,  \* the mesh and the placement rm was built from
    last,   \* the last call: method, argument, outcome and the object before it
    ncalls  \* the number of calls made

\* The state of the calls of the module level helper functions.
VARIABLES
    args,   \* the direction and the point the helpers are called with
    ret     \* the last helper call: function, arguments and returned value

\* The state of two RenderingMesh objects at work side by side.
VARIABLES
    heap,   \* the Mesh.Mesh objects: their points and facets, by identity
    objs,   \* the two RenderingMesh objects, their mesh held by identity
    step,   \* the last step: the operation, the object it was on, its outcome
    nsteps  \* the number of steps made

\* The state of a plugin process: its socket, its listener thread and its
\* application.
VARIABLES
    conn,      \* the connection: what the parent process has sent, unread
    active,    \* Socket._connection_active, the event, set or cleared
    listener,  \* RenderPlugin.listen_thread, running RenderPlugin.listen
    app        \* the RenderPlugin application and its main thread

vars == <<rm, input, last, ncalls, args, ret, heap, objs, step, nsteps,
          conn, active, listener, app>>

\* The value of the variables a specification does not use.
NotUsed == <<>>

helper_vars == <<args, ret>>

NoHelperCalls == args = NotUsed /\ ret = NotUsed

pair_vars == <<heap, objs, step, nsteps>>

NoPair == heap = NotUsed /\ objs = NotUsed /\ step = NotUsed /\ nsteps = NotUsed

plugin_vars == <<conn, active, listener, app>>

NoPlugin == conn = NotUsed /\ active = NotUsed /\ listener = NotUsed /\ app = NotUsed

\* The variables that the calls on the one RenderingMesh object leave alone.
not_object_vars == <<helper_vars, pair_vars, plugin_vars>>

OnlyObject == NoHelperCalls /\ NoPair /\ NoPlugin

Call(op, arg, out, pre) ==
    [op |-> op, arg |-> arg, result |-> out.result, dispatched |-> out.dispatched,
     pre |-> pre]

Init ==
    /\ \E mesh \in InputMeshes, placement \in InputPlacements :
          /\ rm = RenderingMeshInit(mesh, NoUvmap, placement, 0)
          /\ input = [mesh |-> mesh, placement |-> placement]
    /\ last = Call("__init__", "", Return(rm, "none"), rm)
    /\ ncalls = 0
    /\ OnlyObject

\* RenderingMesh(): no mesh is given.
InitNoMesh ==
    /\ rm = RenderingMeshInitNoMesh(NoUvmap, 0)
    /\ input = [mesh |-> EmptyMesh, placement |-> IdentityPlacement]
    /\ last = Call("__init__", "", Return(rm, "none"), rm)
    /\ ncalls = 0
    /\ OnlyObject

ComputeUvmap(projection) ==
    /\ ncalls < MaxCalls
    /\ LET out == compute_uvmap(rm, projection, ncalls + 1)
       IN  /\ rm' = out.self
           /\ last' = Call("compute_uvmap", projection, out, rm)
    /\ ncalls' = ncalls + 1
    /\ UNCHANGED <<input, not_object_vars>>

AddFacet(tri) ==
    /\ ncalls < MaxCalls
    /\ rm' = addFacet(rm, tri)
    /\ last' = Call("addFacet", "", Return(rm', "none"), rm)
    /\ ncalls' = ncalls + 1
    /\ UNCHANGED <<input, not_object_vars>>

Transform(matrix) ==
    /\ ncalls < MaxCalls
    /\ rm' = transform(rm, matrix)
    /\ last' = Call("transform", "", Return(rm', "none"), rm)
    /\ ncalls' = ncalls + 1
    /\ UNCHANGED <<input, not_object_vars>>

Rotate(angles) ==
    /\ ncalls < MaxCalls
    /\ rm' = rotate(rm, angles[1], angles[2], angles[3])
    /\ last' = Call("rotate", "", Return(rm', "none"), rm)
    /\ ncalls' = ncalls + 1
    /\ UNCHANGED <<input, not_object_vars>>

\* copy(): the model goes on with the copy.
Copy ==
    /\ ncalls < MaxCalls
    /\ rm' = copy(rm, ncalls + 1)
    /\ input' = [mesh |-> rm.mesh, placement |-> IdentityPlacement]
    /\ last' = Call("copy", "", Return(rm', "none"), rm)
    /\ ncalls' = ncalls + 1
    /\ UNCHANGED not_object_vars

Next ==
    \/ \E projection \in Projections : ComputeUvmap(projection)
    \/ \E tri \in NewFacets : AddFacet(tri)
    \/ \E matrix \in Matrices : Transform(matrix)
    \/ \E angles \in Rotations : Rotate(angles)
    \/ Copy

Spec == (Init \/ InitNoMesh) /\ [][Next]_vars

(***************************************************************************)
(* The helper functions called on their own: _intersect_unitcube_face on   *)
(* a direction and _compute_uv_from_unitcube on a point and a face.        *)
(***************************************************************************)
\* The greatest magnitude of a component of a direction.
MaxComponent == 2

\* The directions _intersect_unitcube_face is called with, the null one too.
Directions ==
    {<<x, y, z>> : x \in -MaxComponent..MaxComponent, y \in -MaxComponent..MaxComponent,
                   z \in -MaxComponent..MaxComponent}

\* The points _compute_uv_from_unitcube is called with, before the division
\* by 1000.
HelperPoints == {<<x, y, z>> : x \in {-2, 1, 3}, y \in {-2, 1, 3}, z \in {-2, 1, 3}}

object_vars == <<rm, input, last, ncalls>>

NoObject == rm = NotUsed /\ input = NotUsed /\ last = NotUsed /\ ncalls = NotUsed

\* The variables that the helper calls leave alone.
not_helper_vars == <<object_vars, pair_vars, plugin_vars>>

OnlyHelpers == NoObject /\ NoPair /\ NoPlugin

HelperCall(function, arguments, value) ==
    [function |-> function, arguments |-> arguments, value |-> value]

HelperInit ==
    /\ \E direction \in Directions, point \in HelperPoints :
          args = [direction |-> direction, point |-> point]
    /\ ret = HelperCall("none", <<>>, "none")
    /\ OnlyHelpers

IntersectUnitcubeFace ==
    /\ ret' = HelperCall("_intersect_unitcube_face", <<args.direction>>,
                         intersect_unitcube_face(args.direction))
    /\ UNCHANGED <<args, not_helper_vars>>

ComputeUvFromUnitcube(face) ==
    /\ ret' = HelperCall("_compute_uv_from_unitcube", <<ScaledPoint(args.point), face>>,
                         compute_uv_from_unitcube(ScaledPoint(args.point), face))
    /\ UNCHANGED <<args, not_helper_vars>>

HelperNext ==
    \/ IntersectUnitcubeFace
    \/ \E k \in DOMAIN UnitCubeFaceEnum : ComputeUvFromUnitcube(UnitCubeFaceEnum[k])

HelperSpec == HelperInit /\ [][HelperNext]_vars

(***************************************************************************)
(* _is_facet_normal_to_vector called on its own, on a facet and the Z axis *)
(***************************************************************************)
\* The edges p2 - p1 and p3 - p1 of the facets: the null edge, edges in the
\* plane z = 0, edges off it, and edges on both sides of the tolerance
\* (z / length just under and just over 1e-5).
FacetEdges ==
    {<<0, 0, 0>>, <<1, 0, 0>>, <<0, 1, 0>>, <<0, -3, 0>>, <<1, 1, 0>>,
     <<0, 0, 1>>, <<1, 0, 1>>, <<-2, 0, -1>>,
     <<100000, 0, 1>>, <<99999, 0, 1>>, <<70711, 70711, -1>>, <<70710, 70710, -1>>}

\* The first point of the facets.
FacetOrigins == {<<0, 0, 0>>, <<1, 2, 3>>}

FacetInit ==
    /\ \E p1 \in FacetOrigins, e2 \in FacetEdges, e3 \in FacetEdges :
          args = [facet |-> <<p1, VecAdd(p1, e2), VecAdd(p1, e3)>>]
    /\ ret = HelperCall("none", <<>>, "none")
    /\ OnlyHelpers

\* _is_facet_normal_to_vector(facet, z_vector): normalize() raises on a null
\* edge.
IsFacetNormalToVector ==
    /\ ret' = HelperCall("_is_facet_normal_to_vector", <<args.facet>>,
                         IF CanNormalize(args.facet)
                         THEN [result |-> "ok",
                               value |-> is_facet_normal_to_vector(args.facet)]
                         ELSE [result |-> "FreeCADError"])
    /\ UNCHANGED <<args, not_helper_vars>>

FacetNext == IsFacetNormalToVector

FacetSpec == FacetInit /\ [][FacetNext]_vars

(***************************************************************************)
(* Two RenderingMesh objects side by side.  A Mesh.Mesh object is a cell   *)
(* of heap, and a RenderingMesh object holds the identity of its mesh:     *)
(* what a method does to another object is read from the cells it writes.  *)
(* compute_uvmap is taken in steps, the building of the local mesh and UV  *)
(* map and the two assignments that end a strategy, so that the calls on   *)
(* the two objects interleave.                                             *)
(***************************************************************************)
\* The meshes and placements the two objects are built with.
PairMeshes == {Tetra}

PairPlacements == {IdentityPlacement, Placement(RotX90, <<1, 0, 0>>)}

\* The number of steps of one behaviour.
MaxPairSteps == 4

\* The variables that the steps of the two objects leave alone.
not_pair_vars == <<object_vars, helper_vars, plugin_vars>>

OnlyPair == NoObject /\ NoHelperCalls /\ NoPlugin

\* A RenderingMesh object with the identity of its mesh in place of the mesh,
\* the position of a compute_uvmap call under way and the object that call
\* is about to leave (the local variables mesh and uvmap); origin tells a
\* copy from an object built on a mesh.
Held(self, origin) ==
    [origin |-> origin,
     meshid |-> self.meshid,
     hasorig |-> self.hasorig,
     originalmesh |-> self.originalmesh,
     originalplacement |-> self.originalplacement,
     uvmap |-> self.uvmap,
     pc |-> "idle",
     locals |-> NotUsed]

\* The object with its mesh read from the heap.
Deref(o, h) ==
    [mesh |-> h[o.meshid],
     meshid |-> o.meshid,
     hasorig |-> o.hasorig,
     originalmesh |-> o.originalmesh,
     originalplacement |-> o.originalplacement,
     uvmap |-> o.uvmap]

Other(k) == 3 - k

\* The identity of the next Mesh.Mesh object.
Fresh == Cardinality(DOMAIN heap) + 1

Step(op, on, result) == [op |-> op, on |-> on, result |-> result]

\* Two objects built on a Mesh.Mesh object each.
PairInit ==
    /\ \E m1 \in PairMeshes, m2 \in PairMeshes, p1 \in PairPlacements :
          /\ heap = (1 :> m1) @@ (2 :> m2)
          /\ objs = <<Held(RenderingMeshInit(m1, NoUvmap, p1, 1), "built"),
                      Held(RenderingMeshInit(m2, NoUvmap, IdentityPlacement, 2), "built")>>
    /\ step = Step("__init__", 0, "ok")
    /\ nsteps = 0
    /\ OnlyPair

\* Two objects built on the same Mesh.Mesh object: "self.__mesh = mesh" keeps
\* the object it is given.
PairInitSameMesh ==
    /\ \E m \in PairMeshes, p1 \in PairPlacements :
          /\ heap = (1 :> m)
          /\ objs = <<Held(RenderingMeshInit(m, NoUvmap, p1, 1), "built"),
                      Held(RenderingMeshInit(m, NoUvmap, IdentityPlacement, 1), "built")>>
    /\ step = Step("__init__", 0, "ok")
    /\ nsteps = 0
    /\ OnlyPair

\* compute_uvmap(projection) on object k, up to the assignments: the local
\* mesh is a new Mesh.Mesh object, or the call raises.
PairBegin(k, projection) ==
    /\ nsteps < MaxPairSteps
    /\ objs[k].pc = "idle"
    /\ LET out == compute_uvmap(Deref(objs[k], heap), projection, Fresh)
       IN  IF out.result = "ok"
           THEN /\ heap' = (out.self.meshid :> out.self.mesh) @@ heap
                /\ objs' = [objs EXCEPT
                       ![k].pc = IF out.self.meshid # objs[k].meshid
                                 THEN "assign_mesh" ELSE "assign_uvmap",
                       ![k].locals = out.self]
                /\ step' = Step("compute_uvmap", k, "local")
           ELSE /\ UNCHANGED <<heap, objs>>
                /\ step' = Step("compute_uvmap", k, out.result)
    /\ nsteps' = nsteps + 1
    /\ UNCHANGED not_pair_vars

\* self.__mesh = mesh
PairAssignMesh(k) ==
    /\ nsteps < MaxPairSteps
    /\ objs[k].pc = "assign_mesh"
    /\ objs' = [objs EXCEPT ![k].meshid = objs[k].locals.meshid,
                            ![k].pc = "assign_uvmap"]
    /\ step' = Step("compute_uvmap", k, "mesh assigned")
    /\ nsteps' = nsteps + 1
    /\ UNCHANGED <<heap, not_pair_vars>>

\* self.__uvmap = tuple(uvmap), and the call returns
PairAssignUvmap(k) ==
    /\ nsteps < MaxPairSteps
    /\ objs[k].pc = "assign_uvmap"
    /\ objs' = [objs EXCEPT ![k].uvmap = objs[k].locals.uvmap,
                            ![k].pc = "idle",
                            ![k].locals = NotUsed]
    /\ step' = Step("compute_uvmap", k, "ok")
    /\ nsteps' = nsteps + 1
    /\ UNCHANGED <<heap, not_pair_vars>>

\* addFacet on object k: the Mesh.Mesh object it holds is changed in place.
PairAddFacet(k, tri) ==
    /\ nsteps < MaxPairSteps
    /\ objs[k].pc = "idle"
    /\ heap' = [heap EXCEPT ![objs[k].meshid] =
                    addFacet(Deref(objs[k], heap), tri).mesh]
    /\ step' = Step("addFacet", k, "ok")
    /\ nsteps' = nsteps + 1
    /\ UNCHANGED <<objs, not_pair_vars>>

\* transform on object k: the Mesh.Mesh object it holds is changed in place.
PairTransform(k, matrix) ==
    /\ nsteps < MaxPairSteps
    /\ objs[k].pc = "idle"
    /\ heap' = [heap EXCEPT ![objs[k].meshid] =
                    transform(Deref(objs[k], heap), matrix).mesh]
    /\ step' = Step("transform", k, "ok")
    /\ nsteps' = nsteps + 1
    /\ UNCHANGED <<objs, not_pair_vars>>

\* The other object is dropped for a copy of object k.
PairCopy(k) ==
    /\ nsteps < MaxPairSteps
    /\ objs[k].pc = "idle" /\ objs[Other(k)].pc = "idle"
    /\ LET new == copy(Deref(objs[k], heap), Fresh)
       IN  /\ heap' = (new.meshid :> new.mesh) @@ heap
           /\ objs' = [objs EXCEPT ![Other(k)] = Held(new, "copy")]
    /\ step' = Step("copy", k, "ok")
    /\ nsteps' = nsteps + 1
    /\ UNCHANGED not_pair_vars

PairNext ==
    \E k \in 1..2 :
        \/ \E projection \in SupportedProjections \cup {"Planar"} : PairBegin(k, projection)
        \/ PairAssignMesh(k)
        \/ PairAssignUvmap(k)
        \/ \E tri \in NewFacets : PairAddFacet(k, tri)
        \/ \E matrix \in Matrices : PairTransform(k, matrix)
        \/ PairCopy(k)

PairSpec == (PairInit \/ PairInitSameMesh) /\ [][PairNext]_vars

(***************************************************************************)
(* The plugin framework (wheelhouse/plugin_framework/plugin_framework.py): *)
(* the Socket singleton, the listener thread of a RenderPlugin and its     *)
(* close_and_quit slot.  The parent process is the environment.  Time is   *)
(* counted in periods of the timeout of the wait of Socket.recv (1 s);     *)
(* the steps of the code take no time, so that time passes (Tick) only     *)
(* when every thread is waiting.                                           *)
(***************************************************************************)
\* The number of messages the parent process sends.
MaxSent == 3

\* listen_thread.wait(5000), in periods of the wait(timeout=1) of recv.
WaitTicks == 5

\* None, returned by recv.
None == <<>>

\* The messages (verb, argument) the parent process sends.
ParentMessages == {<<"CLOSE", "">>, <<"MSG", "text">>}

not_plugin_vars == <<object_vars, helper_vars, pair_vars>>

OnlyPlugin == NoObject /\ NoHelperCalls /\ NoPair

LastOf(seq) == seq[Len(seq)]

\* Socket.recv, the test of its while loop taken with the socket always
\* active.
recv_enter_always_waits(connection_active) == "wait"

\* Socket.recv, the test of its while loop: wait on the connection while the
\* socket is active, return None otherwise.
recv_enter(connection_active) ==
    IF connection_active THEN "wait" ELSE "return None"

\* Socket.stop_recv
stop_recv(connection_active) == FALSE

\* The body of the loop of listen with no stop_recv on CLOSE.
listen_body_without_stop_recv(message, connection_active, handled) ==
    IF message[1] = "CLOSE"
    THEN [active |-> connection_active, emit |-> 1, handled |-> handled,
          raised |-> "none"]
    ELSE [active |-> connection_active, emit |-> 0, handled |-> handled,
          raised |-> "NameError"]

\* The body of the loop of RenderPlugin.listen on a message: the event of the
\* socket, the emissions of quit_signal, the messages handed to
\* self.cb_handle_message and the exception raised.  The name
\* cb_handle_message of line 175 is looked up in the globals of the module,
\* where nothing has that name: NameError.
listen_body(message, connection_active, handled) ==
    IF message[1] = "CLOSE"
    THEN [active |-> stop_recv(connection_active), emit |-> 1, handled |-> handled,
          raised |-> "none"]
    ELSE [active |-> connection_active, emit |-> 0, handled |-> handled,
          raised |-> "NameError"]

\* The calls of close_and_quit up to the wait on the listener thread.
close_and_quit_begin == <<"stop_recv", "listen_thread.quit", "listen_thread.wait">>

\* The end of close_and_quit with the listener thread terminated whatever
\* the wait returned.
close_and_quit_end_always_terminate(finished) ==
    <<"listen_thread.terminate", "closeAllWindows", "quit">>

\* The calls of close_and_quit after the wait on the listener thread, which
\* returned finished.
close_and_quit_end(finished) ==
    IF finished THEN <<"closeAllWindows", "quit">>
    ELSE <<"listen_thread.terminate", "closeAllWindows", "quit">>

\* After RenderPlugin.__init__ and the start of the event loop: the socket is
\* active, the listener thread enters listen, nothing has come from the
\* parent.
PluginInit ==
    /\ conn = [msgs |-> <<>>, partial |-> None, eof |-> FALSE, sent |-> 0]
    /\ active = TRUE
    /\ listener = [pc |-> "recv", elapsed |-> FALSE, returns |-> <<>>,
                   handled |-> <<>>, raised |-> "none"]
    /\ app = [pc |-> "exec", waited |-> 0, emitted |-> 0, queued |-> 0,
              calls |-> <<>>, windows |-> "open"]
    /\ OnlyPlugin

\* The parent process sends a message, received whole.
ParentSend(message) ==
    /\ conn.sent < MaxSent /\ ~conn.eof /\ conn.partial = None
    /\ conn' = [conn EXCEPT !.msgs = Append(@, message), !.sent = @ + 1]
    /\ UNCHANGED <<active, listener, app, not_plugin_vars>>

\* The beginning of a message of the parent process comes in: the connection
\* is readable, the message is not whole.
ParentSendBegin(message) ==
    /\ conn.sent < MaxSent /\ ~conn.eof /\ conn.partial = None
    /\ conn' = [conn EXCEPT !.partial = message, !.sent = @ + 1]
    /\ UNCHANGED <<active, listener, app, not_plugin_vars>>

\* The rest of the message comes in.
ParentSendRest ==
    /\ conn.partial # None /\ ~conn.eof
    /\ conn' = [conn EXCEPT !.msgs = Append(@, conn.partial), !.partial = None]
    /\ UNCHANGED <<active, listener, app, not_plugin_vars>>

\* The parent process closes the connection.
ParentClose ==
    /\ ~conn.eof
    /\ conn' = [conn EXCEPT !.eof = TRUE]
    /\ UNCHANGED <<active, listener, app, not_plugin_vars>>

\* wait([self._connection], timeout=1) has the connection to return.
Readable == conn.msgs # <<>> \/ conn.partial # None \/ conn.eof

\* Socket.recv is entered from the loop of listen; on None the loop and the
\* thread end.
RecvEnter ==
    /\ listener.pc = "recv"
    /\ listener' =
          IF recv_enter(active) = "wait"
          THEN [listener EXCEPT !.pc = "wait", !.elapsed = FALSE]
          ELSE [listener EXCEPT !.pc = "finished", !.returns = Append(@, None)]
    /\ UNCHANGED <<conn, active, app, not_plugin_vars>>

\* conn.recv() returns a message, recv returns it and the body of the loop of
\* listen runs on it.
RecvMessage ==
    /\ listener.pc \in {"wait", "read"}
    /\ conn.msgs # <<>>
    /\ LET message == Head(conn.msgs)
           out == listen_body(message, active, listener.handled)
       IN  /\ conn' = [conn EXCEPT !.msgs = Tail(@)]
           /\ active' = out.active
           /\ listener' =
                 [listener EXCEPT
                     !.pc = IF out.raised = "none" THEN "recv" ELSE "finished",
                     !.returns = Append(@, message),
                     !.handled = out.handled,
                     !.raised = out.raised]
           /\ app' = [app EXCEPT !.emitted = @ + out.emit, !.queued = @ + out.emit]
    /\ UNCHANGED not_plugin_vars

\* conn.recv() blocks on a message that is not whole.
RecvBlocks ==
    /\ listener.pc = "wait"
    /\ conn.msgs = <<>> /\ ~conn.eof /\ conn.partial # None
    /\ listener' = [listener EXCEPT !.pc = "read"]
    /\ UNCHANGED <<conn, active, app, not_plugin_vars>>

\* conn.recv() raises EOFError: the event is cleared and the while loop of
\* recv tests it again.
RecvEOF ==
    /\ listener.pc \in {"wait", "read"}
    /\ conn.msgs = <<>> /\ conn.eof
    /\ active' = FALSE
    /\ listener' = [listener EXCEPT !.pc = "recv"]
    /\ UNCHANGED <<conn, app, not_plugin_vars>>

\* wait times out and the while loop of recv tests the event again.
RecvTimeout ==
    /\ listener.pc = "wait" /\ listener.elapsed
    /\ listener' = [listener EXCEPT !.pc = "recv"]
    /\ UNCHANGED <<conn, active, app, not_plugin_vars>>

\* close_and_quit up to the wait on the listener thread.
CloseAndQuitBegin ==
    /\ active' = stop_recv(active)
    /\ app' = [app EXCEPT !.pc = "wait", !.waited = 0, !.calls = close_and_quit_begin]

\* The event loop delivers quit_signal (a queued connection) to close_and_quit.
DeliverQuitSignal ==
    /\ app.pc = "exec" /\ app.queued > 0
    /\ CloseAndQuitBegin
    /\ UNCHANGED <<conn, listener, not_plugin_vars>>

\* The plugin calls its close_and_quit slot itself.
CallCloseAndQuit ==
    /\ app.pc = "exec"
    /\ CloseAndQuitBegin
    /\ UNCHANGED <<conn, listener, not_plugin_vars>>

\* The rest of close_and_quit.
CloseAndQuitEnd(finished) ==
    LET calls == close_and_quit_end(finished)
        terminate == \E i \in DOMAIN calls : calls[i] = "listen_thread.terminate"
    IN  /\ app' = [app EXCEPT !.pc = "exited", !.calls = @ \o calls,
                              !.windows = "closed"]
        /\ listener' = IF terminate /\ listener.pc # "finished"
                       THEN [listener EXCEPT !.pc = "terminated"]
                       ELSE listener

\* listen_thread.wait(5000) returns True: the thread has finished.
WaitFinished ==
    /\ app.pc = "wait" /\ listener.pc = "finished"
    /\ CloseAndQuitEnd(TRUE)
    /\ UNCHANGED <<conn, active, not_plugin_vars>>

\* listen_thread.wait(5000) returns False: 5000 ms have passed and the thread
\* has not finished.
WaitTimedOut ==
    /\ app.pc = "wait" /\ listener.pc # "finished" /\ app.waited = WaitTicks
    /\ CloseAndQuitEnd(FALSE)
    /\ UNCHANGED <<conn, active, not_plugin_vars>>

\* A thread has a step to take now.
ListenerReady ==
    \/ listener.pc = "recv"
    \/ listener.pc = "wait" /\ (Readable \/ listener.elapsed)
    \/ listener.pc = "read" /\ (conn.msgs # <<>> \/ conn.eof)

AppReady ==
    \/ app.pc = "exec" /\ app.queued > 0
    \/ app.pc = "wait" /\ (listener.pc = "finished" \/ app.waited = WaitTicks)

\* One period passes for the threads that wait.
Tick ==
    /\ ~ListenerReady /\ ~AppReady
    /\ listener.pc = "wait" \/ app.pc = "wait"
    /\ listener' = IF listener.pc = "wait" THEN [listener EXCEPT !.elapsed = TRUE]
                   ELSE listener
    /\ app' = IF app.pc = "wait" THEN [app EXCEPT !.waited = @ + 1] ELSE app
    /\ UNCHANGED <<conn, active, not_plugin_vars>>

ParentNext ==
    \/ \E message \in ParentMessages : ParentSend(message)
    \/ \E message \in ParentMessages : ParentSendBegin(message)
    \/ ParentSendRest
    \/ ParentClose

ListenerNext == RecvEnter \/ RecvMessage \/ RecvBlocks \/ RecvEOF \/ RecvTimeout

AppNext == DeliverQuitSignal \/ WaitFinished \/ WaitTimedOut

PluginNext == ParentNext \/ ListenerNext \/ AppNext \/ CallCloseAndQuit \/ Tick

PluginSpec == PluginInit /\ [][PluginNext]_vars

\* The threads are scheduled and time passes.
PluginFairSpec ==
    PluginSpec /\ WF_vars(ListenerNext) /\ WF_vars(AppNext) /\ WF_vars(Tick)

(***************************************************************************)
(* The material emitters of Render/renderers/Povray.py and Ospray.py:      *)
(* _write_material and _write_material_fallback.  An object is a record of *)
(* its attributes; a float is [float |-> n] with n its value in tenths, a  *)
(* string [str |-> s], an int [int |-> n].                                 *)
(***************************************************************************)
\* 1.0 in tenths.
Tenths == 10

Float(tenths) == [float |-> tenths]

Renderers == {"Povray", "Ospray"}

\* The keys of MATERIALS.
MATERIALS(renderer) ==
    IF renderer = "Povray"
    THEN {"Passthrough", "Glass", "Disney", "Diffuse", "Mixed", "Carpaint",
          "Substance_PBR", "Emission"}
    ELSE {"Passthrough", "Glass", "Disney", "Diffuse", "Mixed", "Carpaint"}

\* The shader types of the materials: those of the workbench and two that no
\* renderer knows.
ShaderTypes == MATERIALS("Povray") \cup {"Velvet", ""}

\* The components of the default colors: 0.0, 0.5, 1.0, 1.5 and a string
\* that is no number.
ColorComponents == {Float(0), Float(5), Float(10), Float(15), [str |-> "none"]}

\* A color object: the attributes r, g, b (and the method to_linear), no
\* attribute default_color.
Color(r, g, b) == [r |-> r, g |-> g, b |-> b]

\* The material values _write_material is called with.
MaterialValues ==
    {[shadertype |-> shadertype, default_color |-> Color(r, g, b)] :
        shadertype \in ShaderTypes,
        r \in ColorComponents, g \in ColorComponents, b \in ColorComponents}

\* The object has the attribute.
HasAttr(object, name) == name \in DOMAIN object

\* float(x) returns: x is a number.
IsFloat(x) == "float" \in DOMAIN x

\* color.to_linear(): the components from sRGB to linear, to the nearest
\* tenth (0.5 to 0.2, 1.5 to 2.5); a component that is no number is left
\* to float().
to_linear(color) ==
    LET Linear(c) ==
            IF ~IsFloat(c) THEN c
            ELSE Float(CASE c.float = 0 -> 0
                         [] c.float = 5 -> 2
                         [] c.float = 10 -> 10
                         [] OTHER -> 25)
    IN  <<Linear(color.r), Linear(color.g), Linear(color.b)>>

\* The snippet of the fallback material, by the values it is formatted
\* with.
FallbackSnippet(renderer, red, grn, blu) ==
    [renderer |-> renderer, material |-> "fallback", r |-> red, g |-> grn, b |-> blu]

\* _write_material_fallback(name, material): the color is
\* material.default_color, and 1, 1, 1 on AttributeError, ValueError,
\* TypeError and AssertionError.
write_material_fallback(renderer, name, material) ==
    LET white == FallbackSnippet(renderer, [int |-> 1], [int |-> 1], [int |-> 1])
    IN  IF ~HasAttr(material, "default_color") THEN white
        ELSE LET color == material.default_color
                 rgb == IF renderer = "Povray" THEN to_linear(color)
                        ELSE <<color.r, color.g, color.b>>
             IN  IF \E i \in 1..3 : ~IsFloat(rgb[i]) THEN white
                 ELSE IF \E i \in 1..3 : rgb[i].float < 0 \/ rgb[i].float > Tenths
                 THEN white
                 ELSE FallbackSnippet(renderer, rgb[1], rgb[2], rgb[3])

\* _write_material(name, matval): the snippet of MATERIALS[shadertype], and on
\* KeyError a warning and the fallback snippet of matval.default_color.
write_material(renderer, name, matval) ==
    IF matval.shadertype \in MATERIALS(renderer)
    THEN [raised |-> "none", warning |-> FALSE,
          snippet |-> [renderer |-> renderer, material |-> matval.shadertype]]
    ELSE [raised |-> "none", warning |-> TRUE,
          snippet |-> write_material_fallback(renderer, name, matval.default_color)]

MaterialInit ==
    /\ \E renderer \in Renderers, matval \in MaterialValues :
          args = [renderer |-> renderer, name |-> "object", matval |-> matval]
    /\ ret = HelperCall("none", <<>>, "none")
    /\ OnlyHelpers

WriteMaterial ==
    /\ ret' = HelperCall("_write_material", <<args.name, args.matval>>,
                         write_material(args.renderer, args.name, args.matval))
    /\ UNCHANGED <<args, not_helper_vars>>

MaterialNext == WriteMaterial

MaterialSpec == MaterialInit /\ [][MaterialNext]_vars

(***************************************************************************)
(* The merge of the light groups in render of Render/renderers/Ospray.py   *)
(***************************************************************************)
\* The number of children of the world.
MaxChildren == 3

\* The number of lights of a light group.
MaxLights == 2

\* The child at position i of the world: an object, or a light group with
\* n lights of its own.
WorldObject(i, type) == [type |-> type, name |-> i]

LightGroup(i, n) == [type |-> "LIGHTS", children |-> [k \in 1..n |-> <<"light", i, k>>]]

ChildKinds ==
    {<<"IMPORTER", 0>>, <<"TRANSFORM", 0>>} \cup {<<"LIGHTS", n>> : n \in 0..MaxLights}

WorldChildren == UNION {[1..len -> ChildKinds] : len \in 0..MaxChildren}

World(choice) ==
    [i \in DOMAIN choice |->
        IF choice[i][1] = "LIGHTS" THEN LightGroup(i, choice[i][2])
        ELSE WorldObject(i, choice[i][1])]

IsLights(child) == child.type = "LIGHTS"

\* The children left as they are.
sort_lights_unsorted(children) == children

\* world_children.sort(key=lambda x: x["type"] == "LIGHTS"): a stable sort,
\* the light groups last.
sort_lights_last(children) ==
    SelectSeq(children, LAMBDA child : ~IsLights(child))
        \o SelectSeq(children, IsLights)

\* remaining_lightgroups()
remaining_lightgroups(world_children) ==
    IF world_children = <<>> THEN FALSE
    ELSE IsLights(world_children[Len(world_children)])

MergeInit ==
    /\ \E choice \in WorldChildren, managed \in {<<>>, <<<<"light", 0, 0>>>>} :
          args = [world |-> World(choice), lightsManager |-> managed]
    /\ ret = [pc |-> "sort", world_children |-> args.world, lights |-> <<>>,
              lightsmanager_children |-> args.lightsManager]
    /\ OnlyHelpers

\* Lines 699 to 702: the sort and the empty list of lights.
MergeSort ==
    /\ ret.pc = "sort"
    /\ ret' = [ret EXCEPT !.pc = "while",
                          !.world_children = sort_lights_last(@),
                          !.lights = <<>>]
    /\ UNCHANGED <<args, not_helper_vars>>

\* One turn of the while loop.
MergePop ==
    /\ ret.pc = "while"
    /\ remaining_lightgroups(ret.world_children)
    /\ LET light == ret.world_children[Len(ret.world_children)]
       IN  ret' = [ret EXCEPT
                      !.world_children = SubSeq(@, 1, Len(@) - 1),
                      !.lights = @ \o light.children]
    /\ UNCHANGED <<args, not_helper_vars>>

\* The end of the loop and lightsmanager_children.extend(lights).
MergeExtend ==
    /\ ret.pc = "while"
    /\ ~remaining_lightgroups(ret.world_children)
    /\ ret' = [ret EXCEPT !.pc = "done",
                          !.lightsmanager_children = @ \o ret.lights]
    /\ UNCHANGED <<args, not_helper_vars>>

MergeNext == MergeSort \/ MergePop \/ MergeExtend

\* render runs on: a step that can be taken is taken.
MergeSpec == MergeInit /\ [][MergeNext]_vars /\ WF_vars(MergeNext)

(***************************************************************************)
(* Properties                                                              *)
(***************************************************************************)
\* The last call was compute_uvmap and it returned normally.
UvmapReturned == last.op = "compute_uvmap" /\ last.result = "ok"

\* The last call was compute_uvmap and it raised.
UvmapRaised == last.op = "compute_uvmap" /\ last.result # "ok"

\* The strategy the last call asked for.
LastProjection == DefaultProjection(last.arg)

\* The points of the facets of a mesh, as a set of positions.
FacetPoints(m) ==
    {MeshFacets(m)[k][j] : k \in DOMAIN m.Facets, j \in 1..3}

\* uv is the cube projection of the local point q on one of the six faces.
IsCubeUV(uv, q) ==
    \E k \in DOMAIN UnitCubeFaceEnum :
        uv = compute_uv_from_unitcube(ScaledPoint(q), UnitCubeFaceEnum[k])

\* uv is the cylinder projection of the local point q, as a cap point or as a
\* regular point.
IsCylinderUV(uv, q) ==
    \/ uv = CapUV(q)
    \/ uv.kind = "cylinder" /\ uv = CylinderUV(q, uv.radius)

\* uv is the sphere projection of the local point q of the point array.
IsSphereUV(uv, q, points) ==
    uv = SphereUV(VecMinusOrigin(q, compute_barycenter(points)))

\* The mesh point i is the placed local point q.
IsPlaced(self, i, q) == self.mesh.Points[i] = F32Vec(Apply(self.originalplacement, q))

\* The UV entry i is the projection, by the strategy proj, of the point i.
PointProjection(self, proj, i) ==
    LET uv == self.uvmap.val[i]
    IN  CASE proj = "Cubic" ->
                \E q \in FacetPoints(self.originalmesh) :
                    IsPlaced(self, i, q) /\ IsCubeUV(uv, q)
          [] proj = "Cylindric" ->
                \E q \in FacetPoints(self.originalmesh) :
                    IsPlaced(self, i, q) /\ IsCylinderUV(uv, q)
          [] proj = "Spherical" ->
                /\ i \in DOMAIN self.originalmesh.Points
                /\ IsSphereUV(uv, self.originalmesh.Points[i], self.originalmesh.Points)

\* The UV map of self is present, as long as the point array of its mesh,
\* and every entry is the projection by proj of the point at its index.
Aligned(self, proj) ==
    /\ self.uvmap.present
    /\ Len(self.uvmap.val) = Len(self.mesh.Points)
    /\ \A i \in DOMAIN self.uvmap.val : PointProjection(self, proj, i)

\* C1: whenever compute_uvmap returns normally, for each of the three kinds
\* and from every pre-state, the UV map has as many entries as the mesh has
\* points and entry i is the projection of the point at index i.
C1_IndexAlignment == UvmapReturned => Aligned(rm, LastProjection)

\* C2: in every state, if a UV map is present it has as many entries as the
\* mesh has points (the correspondence of entry i and point i needs this).
C2_UvmapLength == rm.uvmap.present => Len(rm.uvmap.val) = Len(rm.mesh.Points)

C4_FailureKeepsState == UvmapRaised => rm = last.pre

\* Cylindric raised on a mesh without regular facet, on an object that had
\* a UV map.
C4_Witness ==
    /\ UvmapRaised /\ last.arg = "Cylindric" /\ last.result = "ZeroDivisionError"
    /\ last.pre.uvmap.present

\* C5: compute_uvmap with a value other than Cubic, Spherical, Cylindric and
\* None raises ValueError and enters no projection strategy.
C5_UnsupportedKind ==
    (last.op = "compute_uvmap" /\ last.arg \notin SupportedProjections \cup {"None"}) =>
        /\ last.result = "ValueError"
        /\ last.dispatched = "none"

\* compute_uvmap("cubic") was called on an object built from a mesh.
C5_Witness ==
    /\ last.op = "compute_uvmap" /\ last.arg = "cubic"
    /\ last.pre.hasorig /\ last.result = "ValueError"

\* C6: compute_uvmap(None) leaves, from every pre-state, the object that
\* compute_uvmap("Cubic") leaves, with the same outcome.
C6_DefaultIsCubic ==
    (last.op = "compute_uvmap" /\ last.arg = "None") =>
        LET cubic == compute_uvmap(last.pre, "Cubic", ncalls)
        IN  /\ rm = cubic.self
            /\ last.result = cubic.result
            /\ last.dispatched = "cube"

\* compute_uvmap(None) returned on an object that had another UV map.
C6_Witness ==
    /\ UvmapReturned /\ last.arg = "None"
    /\ last.pre.uvmap.present /\ last.pre.uvmap # rm.uvmap

\* C7: a successful compute_uvmap("Spherical") leaves the mesh object, its
\* points and its facets as they were, and the UV map has one entry for
\* each point of the unplaced original mesh, the projection of that point.
C7_SphericalKeepsMesh ==
    (UvmapReturned /\ LastProjection = "Spherical") =>
        /\ rm.mesh = last.pre.mesh
        /\ rm.meshid = last.pre.meshid
        /\ rm.originalmesh = last.pre.originalmesh
        /\ rm.uvmap.present
        /\ Len(rm.uvmap.val) = Len(rm.originalmesh.Points)
        /\ \A i \in DOMAIN rm.uvmap.val :
              IsSphereUV(rm.uvmap.val[i], rm.originalmesh.Points[i],
                         rm.originalmesh.Points)

\* Spherical returned on an object whose mesh is not its placed original mesh.
C7_Witness ==
    /\ UvmapReturned /\ LastProjection = "Spherical"
    /\ rm.originalplacement # IdentityPlacement
    /\ rm.mesh # MeshTransform(rm.originalmesh, rm.originalplacement)

\* The positions of the points of a mesh.
PointSet(m) == {m.Points[i] : i \in DOMAIN m.Points}

\* Every mesh point is the placed local point of which the UV entry of the
\* same index is the projection.
PlacedProjections(self, proj) ==
    /\ Len(self.uvmap.val) = Len(self.mesh.Points)
    /\ \A i \in DOMAIN self.mesh.Points : PointProjection(self, proj, i)

\* A position taken through the inverse of the placement and the placement.
RoundTrip(pl, p) == F32Vec(Apply(pl, F32Vec(Apply(PlacementInverse(pl), p))))

\* C8 as stated: after a successful Cubic or Cylindric call every mesh point
\* is the placed local point its UV entry was computed from, and the output
\* positions are exactly the positions of the facet points of the input mesh.
C8_PlacementRestoration ==
    (UvmapReturned /\ LastProjection \in {"Cubic", "Cylindric"}) =>
        /\ PlacedProjections(rm, LastProjection)
        /\ PointSet(rm.mesh) = FacetPoints(input.mesh)

\* C8 amended: ... and the output positions are the positions of the facet
\* points of the input mesh taken through the inverse placement and the
\* placement, each stored in single precision.
C8_PlacementRestorationRounded ==
    (UvmapReturned /\ LastProjection \in {"Cubic", "Cylindric"}) =>
        /\ PlacedProjections(rm, LastProjection)
        /\ PointSet(rm.mesh) =
              {RoundTrip(input.placement, p) : p \in FacetPoints(input.mesh)}

\* A Cubic or Cylindric call returned with a point off its input position.
C8_Witness ==
    /\ UvmapReturned /\ LastProjection \in {"Cubic", "Cylindric"}
    /\ PointSet(rm.mesh) # FacetPoints(input.mesh)

\* The face order of the claim: +X, -X, +Y, -Y, +Z, -Z.
ClaimedFaceOrder == <<"XPLUS", "XMINUS", "YPLUS", "YMINUS", "ZPLUS", "ZMINUS">>

\* The sub-mesh of a cube face: the facets of the unplaced original mesh
\* classified to that face.
FaceMesh(self, cubeface) == MeshFromFacets(FaceFacets(self.originalmesh, cubeface))

\* The number of points of the sub-meshes of the faces before the k-th.
RECURSIVE FaceOffset(_, _)
FaceOffset(self, k) ==
    IF k = 1 THEN 0
    ELSE FaceOffset(self, k - 1) + Len(FaceMesh(self, ClaimedFaceOrder[k - 1]).Points)

\* C9: after a successful Cubic call the mesh points are the points of the
\* six face sub-meshes, placed, in the order +X, -X, +Y, -Y, +Z, -Z, each
\* sub-mesh in its own point order, and the UV entries follow the same order.
C9_CubicMergeOrder ==
    (UvmapReturned /\ LastProjection = "Cubic") =>
        LET total == FaceOffset(rm, Len(ClaimedFaceOrder) + 1)
        IN  /\ Len(rm.mesh.Points) = total
            /\ Len(rm.uvmap.val) = total
            /\ \A k \in DOMAIN ClaimedFaceOrder :
                  LET sub == FaceMesh(rm, ClaimedFaceOrder[k]).Points
                      off == FaceOffset(rm, k)
                  IN  \A i \in DOMAIN sub :
                         /\ IsPlaced(rm, off + i, sub[i])
                         /\ rm.uvmap.val[off + i] =
                               compute_uv_from_unitcube(ScaledPoint(sub[i]),
                                                        ClaimedFaceOrder[k])

\* Cubic returned with points on a +Y and on a -X sub-mesh, under a placement.
C9_Witness ==
    /\ UvmapReturned /\ LastProjection = "Cubic"
    /\ rm.originalplacement # IdentityPlacement
    /\ FaceMesh(rm, "YPLUS").Points # <<>>
    /\ FaceMesh(rm, "XMINUS").Points # <<>>

\* The faces whose sub-mesh has a point at the local position q.
FacesOf(self, q) ==
    {k \in DOMAIN ClaimedFaceOrder : q \in PointSet(FaceMesh(self, ClaimedFaceOrder[k]))}

\* The mesh points that are the placed local position q.
CopiesOf(self, q) == {i \in DOMAIN self.mesh.Points : IsPlaced(self, i, q)}

\* After a successful Cubic call a local position on k face sub-meshes is k
\* times in the mesh, and the mesh has as many points as the six sub-meshes
\* have together.
OncePerFace(self) ==
    /\ \A q \in FacetPoints(self.originalmesh) :
          Cardinality(CopiesOf(self, q)) = Cardinality(FacesOf(self, q))
    /\ Len(self.mesh.Points) = FaceOffset(self, Len(ClaimedFaceOrder) + 1)

\* C10 as stated: ... and the mesh has no fewer points than the facets of
\* the input mesh have positions.
C10_NoCrossFaceDedup ==
    (UvmapReturned /\ LastProjection = "Cubic") =>
        /\ OncePerFace(rm)
        /\ Len(rm.mesh.Points) >= Cardinality(FacetPoints(input.mesh))

\* C10 amended: ... and the mesh has no fewer points than the facets of the
\* unplaced original mesh have positions.
C10_NoCrossFaceDedupUnplaced ==
    (UvmapReturned /\ LastProjection = "Cubic") =>
        /\ OncePerFace(rm)
        /\ Len(rm.mesh.Points) >= Cardinality(FacetPoints(rm.originalmesh))

\* Cubic returned with a position on three face sub-meshes.
C10_Witness ==
    /\ UvmapReturned /\ LastProjection = "Cubic"
    /\ \E q \in FacetPoints(rm.originalmesh) : Cardinality(FacesOf(rm, q)) = 3

(***************************************************************************)
(* The cube partition and the cube helpers                                 *)
(***************************************************************************)
\* The six faces of the unit cube.
FaceSet == {UnitCubeFaceEnum[k] : k \in DOMAIN UnitCubeFaceEnum}

\* The faces whose bucket holds the facet.
BucketsOf(originalmesh, facet) ==
    {face \in FaceSet :
        \E j \in DOMAIN FaceFacets(originalmesh, face) :
            FaceFacets(originalmesh, face)[j] = facet}

\* The number of facets in the buckets of the first k faces.
RECURSIVE BucketTotal(_, _)
BucketTotal(originalmesh, k) ==
    IF k = 0 THEN 0
    ELSE BucketTotal(originalmesh, k - 1)
             + Len(FaceFacets(originalmesh, UnitCubeFaceEnum[k]))

\* C11: in a Cubic call every facet of the unplaced original mesh is in the
\* bucket of exactly one of the six faces, and the six buckets have together
\* as many facets as the original mesh.
C11_CubePartition ==
    (UvmapReturned /\ LastProjection = "Cubic") =>
        LET facets == MeshFacets(rm.originalmesh)
        IN  /\ \A k \in DOMAIN facets :
                  Cardinality(BucketsOf(rm.originalmesh, facets[k])) = 1
            /\ BucketTotal(rm.originalmesh, Len(UnitCubeFaceEnum)) = Len(facets)

\* Cubic returned on a mesh with a facet whose normal has three components
\* of one magnitude, and with facets in three buckets at least.
C11_Witness ==
    /\ UvmapReturned /\ LastProjection = "Cubic"
    /\ \E k \in DOMAIN rm.originalmesh.Facets :
          LET d == FacetNormal(MeshFacets(rm.originalmesh)[k])
          IN  d # ZeroVec /\ Abs(d[1]) = Abs(d[2]) /\ Abs(d[2]) = Abs(d[3])
    /\ Cardinality({face \in FaceSet : FaceFacets(rm.originalmesh, face) # <<>>}) >= 3

\* The axis of a face, as the index of its component, and its side.
FaceAxis(face) ==
    CASE face \in {"XPLUS", "XMINUS"} -> 1
      [] face \in {"YPLUS", "YMINUS"} -> 2
      [] face \in {"ZPLUS", "ZMINUS"} -> 3

FaceIsPlus(face) == face \in {"XPLUS", "YPLUS", "ZPLUS"}

\* The last helper call was _intersect_unitcube_face.
Classified == ret.function = "_intersect_unitcube_face"

\* C12: for every direction other than the null one, the face returned by
\* _intersect_unitcube_face is on an axis where the direction has its
\* greatest magnitude, on the + side when that component is positive and on
\* the - side when it is negative.
C12_DominantAxis ==
    (Classified /\ ret.arguments[1] # ZeroVec) =>
        LET d == ret.arguments[1]
            c == d[FaceAxis(ret.value)]
        IN  /\ ret.value \in FaceSet
            /\ \A j \in 1..3 : Abs(c) >= Abs(d[j])
            /\ c > 0 => FaceIsPlus(ret.value)
            /\ c < 0 => ~FaceIsPlus(ret.value)

\* A direction with negative Y and Z of the greatest magnitude was classified.
C12_Witness ==
    /\ Classified
    /\ ret.arguments[1] = <<1, -2, -2>>
    /\ ret.value = "YMINUS"

\* C13: X is returned when |x| = |y| and |x| >= |z|, and so when the three
\* magnitudes are equal; Z is returned only when neither the test of X nor
\* the test of Y holds; (1,1,0) gives +X and (0,0,-1) gives -Z.
C13_TieBreak ==
    Classified =>
        LET d == ret.arguments[1]
            XQualifies == Abs(d[1]) >= Abs(d[2]) /\ Abs(d[1]) >= Abs(d[3])
            YQualifies == Abs(d[2]) >= Abs(d[1]) /\ Abs(d[2]) >= Abs(d[3])
        IN  /\ (Abs(d[1]) = Abs(d[2]) /\ Abs(d[1]) >= Abs(d[3])) => FaceAxis(ret.value) = 1
            /\ (Abs(d[1]) = Abs(d[2]) /\ Abs(d[2]) = Abs(d[3])) => FaceAxis(ret.value) = 1
            /\ FaceAxis(ret.value) = 3 => (~XQualifies /\ ~YQualifies)
            /\ d = <<1, 1, 0>> => ret.value = "XPLUS"
            /\ d = <<0, 0, -1>> => ret.value = "ZMINUS"

\* The direction (1,1,0) was classified.
C13_Witness ==
    /\ Classified
    /\ ret.arguments[1] = <<1, 1, 0>>
    /\ ret.value = "XPLUS"

\* The unfolding of the claim: the two coordinates of each face.
UnfoldingTable(x, y, z) ==
    [XPLUS |-> <<y, z>>, XMINUS |-> <<-y, z>>,
     YPLUS |-> <<-x, z>>, YMINUS |-> <<x, z>>,
     ZPLUS |-> <<x, y>>, ZMINUS |-> <<x, -y>>]

\* C14: for every point (x, y, z) and each of the six faces,
\* _compute_uv_from_unitcube returns +X -> (y, z), -X -> (-y, z),
\* +Y -> (-x, z), -Y -> (x, z), +Z -> (x, y), -Z -> (x, -y).
C14_CubeUnfolding ==
    ret.function = "_compute_uv_from_unitcube" =>
        LET point == ret.arguments[1]
            face == ret.arguments[2]
            uv == UnfoldingTable(point.num[1], point.num[2], point.num[3])[face]
        IN  /\ face \in FaceSet
            /\ ret.value = [kind |-> "planar", u |-> uv[1], v |-> uv[2], den |-> point.den]

\* The point (1, -2, 3) / 1000 was projected on the -X face.
C14_Witness ==
    /\ ret.function = "_compute_uv_from_unitcube"
    /\ ret.arguments = <<[num |-> <<1, -2, 3>>, den |-> 1000], "XMINUS">>
    /\ ret.value = [kind |-> "planar", u |-> 2, v |-> 3, den |-> 1000]

(***************************************************************************)
(* The cube, end to end                                                    *)
(***************************************************************************)
\* The object was built from the cube under the identity placement, and the
\* last call is a Cubic call that returned.
CubicOnCube ==
    /\ UvmapReturned /\ LastProjection = "Cubic"
    /\ input.mesh = Cube /\ input.placement = IdentityPlacement
    /\ rm.originalmesh = Cube

\* The indices of the mesh points of the k-th face of the merge: four each.
FaceBlock(k) == (4 * (k - 1) + 1)..(4 * k)

\* The position p is on the plane of the face.
OnFacePlane(p, face) ==
    p[FaceAxis(face)] = (IF FaceIsPlus(face) THEN 500 ELSE -500)

\* C15: for the cube of 8 points and 12 facets around the origin under the
\* identity placement, a Cubic call leaves a mesh of 24 points, four corners
\* for each face in the order of the faces and every corner once for each of
\* its three faces, with 24 UV entries; the point (500, 500, 500) of the +Z
\* face has the UV value (0.5, 0.5).
C15_CubeEndToEnd ==
    CubicOnCube =>
        /\ Len(Cube.Points) = 8 /\ Len(Cube.Facets) = 12
        /\ Len(rm.mesh.Points) = 24
        /\ Len(rm.uvmap.val) = 24
        /\ \A k \in DOMAIN ClaimedFaceOrder :
              /\ \A i \in FaceBlock(k) : OnFacePlane(rm.mesh.Points[i], ClaimedFaceOrder[k])
              /\ Cardinality({rm.mesh.Points[i] : i \in FaceBlock(k)}) = 4
        /\ \A q \in PointSet(Cube) :
              Cardinality({i \in DOMAIN rm.mesh.Points : rm.mesh.Points[i] = q}) = 3
        /\ \E i \in FaceBlock(5) :
              /\ rm.mesh.Points[i] = <<500, 500, 500>>
              /\ rm.uvmap.val[i].kind = "planar"
              /\ 2 * rm.uvmap.val[i].u = rm.uvmap.val[i].den
              /\ 2 * rm.uvmap.val[i].v = rm.uvmap.val[i].den

\* Cubic returned on the cube, on an object that had a UV map of another
\* strategy.
C15_Witness ==
    /\ CubicOnCube
    /\ last.pre.uvmap.present
    /\ Len(last.pre.uvmap.val) = 8

(***************************************************************************)
(* The cylinder partition, merge and cap projection                        *)
(***************************************************************************)
\* The last call is a Cylindric call that went through its first loop.
CylindricPartitioned ==
    /\ last.op = "compute_uvmap" /\ LastProjection = "Cylindric"
    /\ last.result \in {"ok", "ZeroDivisionError"}

\* The facet is in the list.
InList(facet, list) == \E j \in DOMAIN list : list[j] = facet

\* C16: in a Cylindric call every facet of the unplaced original mesh is in
\* exactly one of the two lists, regular and z-normal, and the two lists
\* have together as many facets as the original mesh.
C16_CylinderPartition ==
    CylindricPartitioned =>
        LET facets == MeshFacets(rm.originalmesh)
            faces == CylinderFaces(rm.originalmesh)
        IN  /\ \A k \in DOMAIN facets :
                  InList(facets[k], faces[1]) # InList(facets[k], faces[2])
            /\ Len(faces[1]) + Len(faces[2]) = Len(facets)

\* Cylindric returned on a mesh with facets in both lists and with a facet
\* of which one edge only is normal to Z.
C16_Witness ==
    /\ UvmapReturned /\ LastProjection = "Cylindric"
    /\ CylinderFaces(rm.originalmesh)[1] # <<>>
    /\ CylinderFaces(rm.originalmesh)[2] # <<>>
    /\ \E k \in DOMAIN rm.originalmesh.Facets :
          LET facet == MeshFacets(rm.originalmesh)[k]
          IN  IsCloseZeroDotZ(VecSub(facet[2], facet[1]))
                  # IsCloseZeroDotZ(VecSub(facet[3], facet[1]))

\* The points of the regular sub-mesh and of the z-normal (cap) sub-mesh of
\* the unplaced original mesh.
RegularPoints(self) == MeshFromFacets(CylinderFaces(self.originalmesh)[1]).Points

CapPoints(self) == MeshFromFacets(CylinderFaces(self.originalmesh)[2]).Points

\* C17: after a successful Cylindric call the mesh points are the points of
\* the regular sub-mesh followed by the points of the z-normal sub-mesh,
\* all placed, a position of both sub-meshes being there once for each, and
\* the UV entries are in the same order, the regular ones first.
C17_CylindricMergeOrder ==
    (UvmapReturned /\ LastProjection = "Cylindric") =>
        LET regular == RegularPoints(rm)
            caps == CapPoints(rm)
        IN  /\ Len(rm.mesh.Points) = Len(regular) + Len(caps)
            /\ Len(rm.uvmap.val) = Len(regular) + Len(caps)
            /\ \A i \in DOMAIN regular :
                  /\ IsPlaced(rm, i, regular[i])
                  /\ rm.uvmap.val[i] = CylinderUV(regular[i], AvgRadius(regular))
            /\ \A i \in DOMAIN caps :
                  /\ IsPlaced(rm, Len(regular) + i, caps[i])
                  /\ rm.uvmap.val[Len(regular) + i] = CapUV(caps[i])

\* Cylindric returned under a placement on a mesh with a position that is
\* in the regular and in the z-normal sub-mesh.
C17_Witness ==
    /\ UvmapReturned /\ LastProjection = "Cylindric"
    /\ rm.originalplacement # IdentityPlacement
    /\ \E i \in DOMAIN RegularPoints(rm), j \in DOMAIN CapPoints(rm) :
          RegularPoints(rm)[i] = CapPoints(rm)[j]

\* C18: after a successful Cylindric call the UV entry of every point of
\* the z-normal (cap) sub-mesh is (x / 1000, y / 1000), x and y the unplaced
\* local coordinates of the point: neither z nor the average radius is in it.
C18_CapProjection ==
    (UvmapReturned /\ LastProjection = "Cylindric") =>
        LET caps == CapPoints(rm)
            first == Len(rm.uvmap.val) - Len(caps)
        IN  /\ first >= 0
            /\ \A i \in DOMAIN caps :
                  rm.uvmap.val[first + i] =
                      [kind |-> "planar", u |-> caps[i][1], v |-> caps[i][2], den |-> 1000]

\* Cylindric returned under a placement with cap points at two heights.
C18_Witness ==
    /\ UvmapReturned /\ LastProjection = "Cylindric"
    /\ rm.originalplacement # IdentityPlacement
    /\ \E i, j \in DOMAIN CapPoints(rm) :
          /\ CapPoints(rm)[i][3] # CapPoints(rm)[j][3]
          /\ CapPoints(rm)[i][3] # 0

(***************************************************************************)
(* has_uvmap                                                               *)
(***************************************************************************)
\* C19: has_uvmap() is true exactly when the UV map is not None; it is false
\* on an object built without UV map, it becomes true by a compute_uvmap
\* call that returns and by nothing else, it is true after every
\* compute_uvmap call that returns, and once true it stays true through
\* every operation (the copy of an object with a UV map has one too).
C19_HasUvmap ==
    /\ [](has_uvmap(rm) <=> rm.uvmap # NoUvmap)
    /\ [](ncalls = 0 => ~has_uvmap(rm))
    /\ [](UvmapReturned => has_uvmap(rm))
    /\ [][(~has_uvmap(rm) /\ has_uvmap(rm')) =>
              (last'.op = "compute_uvmap" /\ last'.result = "ok")]_vars
    /\ [][has_uvmap(rm) => has_uvmap(rm')]_vars

\* An object with a UV map went through a call that changed its mesh and
\* not its UV map.
C19_Witness ==
    /\ last.op \in {"addFacet", "transform", "rotate"}
    /\ has_uvmap(last.pre) /\ has_uvmap(rm)
    /\ Len(rm.uvmap.val) # Len(rm.mesh.Points)

(***************************************************************************)
(* Two objects side by side                                                *)
(***************************************************************************)
\* What object k is: its mesh, as the Mesh.Mesh object it holds is, its UV
\* map and its other fields, and its compute_uvmap call under way with the
\* local mesh of that call.
View(k) ==
    [self |-> Deref(objs[k], heap),
     pc |-> objs[k].pc,
     locals |-> objs[k].locals,
     localmesh |-> IF objs[k].locals = NotUsed THEN NotUsed
                   ELSE heap[objs[k].locals.meshid]]

\* The UV map that a compute_uvmap call builds for object k when the mesh and
\* the UV map of k are put aside: what is left is the original mesh and the
\* original placement, which k alone holds.
FromOwnOriginal(k, projection) ==
    compute_uvmap([Deref(objs[k], heap) EXCEPT !.mesh = EmptyMesh, !.uvmap = NoUvmap],
                  projection, objs[k].locals.meshid).self.uvmap

\* C20: no step of a compute_uvmap call on one object changes the mesh, the
\* UV map or the call under way of the other object, whether the two were
\* built apart, built on one Mesh.Mesh object or one is the copy of the
\* other, and whatever the order of the steps of the two; the copy of an
\* object holds a Mesh.Mesh object of its own; between two objects that
\* hold a Mesh.Mesh object each, no call on one changes the other; and what
\* a call computes is read from the original mesh and placement of its
\* object alone.
C20_Isolation ==
    /\ [][\A k \in 1..2 :
              (step'.op = "compute_uvmap" /\ step'.on = k) =>
                  View(Other(k))' = View(Other(k))]_vars
    /\ [](step.op = "copy" => objs[1].meshid # objs[2].meshid)
    /\ [][\A k \in 1..2 :
              (step'.on = k /\ step'.op # "copy" /\ objs[1].meshid # objs[2].meshid) =>
                  View(Other(k))' = View(Other(k))]_vars
    /\ [](\A k \in 1..2 :
              objs[k].locals # NotUsed =>
                  \E projection \in SupportedProjections :
                      objs[k].locals.uvmap = FromOwnOriginal(k, projection))

\* Object 1 assigned its new mesh while its copy, object 2, is between the
\* steps of a compute_uvmap call of its own.
C20_Witness ==
    /\ step = Step("compute_uvmap", 1, "mesh assigned")
    /\ objs[2].origin = "copy"
    /\ objs[2].pc # "idle"

(***************************************************************************)
(* Copies and recomputation                                                *)
(***************************************************************************)
\* The two calls end alike and, when they return, leave the same mesh points
\* and the same UV map.
SameOutcome(a, b) ==
    /\ a.result = b.result
    /\ a.result = "ok" =>
          /\ a.self.mesh.Points = b.self.mesh.Points
          /\ a.self.uvmap = b.self.uvmap

\* C21: for an object built on a mesh with any placement and for each of the
\* three kinds, compute_uvmap on its copy leaves the same mesh points and
\* the same UV map as compute_uvmap on the object itself.
C21_CopyLikeSource ==
    (last.op = "copy" /\ ncalls = 1 /\ last.pre.hasorig) =>
        \A projection \in SupportedProjections :
            SameOutcome(compute_uvmap(rm, projection, ncalls + 1),
                        compute_uvmap(last.pre, projection, ncalls + 1))

\* The object as it was built: the mesh and the placement of input.
AsBuilt == RenderingMeshInit(input.mesh, NoUvmap, input.placement, 0)

\* C22: no method changes the unplaced original mesh and the original
\* placement of an object, and a Cubic or Cylindric call that returns, after
\* whatever calls came before, leaves the mesh points and the UV map that
\* the same call leaves on the object as it was built.
C22_Recomputation ==
    /\ [][last'.op # "copy" =>
              /\ rm'.hasorig = rm.hasorig
              /\ rm'.originalmesh = rm.originalmesh
              /\ rm'.originalplacement = rm.originalplacement]_vars
    /\ []((UvmapReturned /\ LastProjection \in {"Cubic", "Cylindric"}) =>
              LET first == compute_uvmap(AsBuilt, LastProjection, ncalls)
              IN  /\ first.result = "ok"
                  /\ rm.mesh.Points = first.self.mesh.Points
                  /\ rm.uvmap = first.self.uvmap)

\* A Cubic or Cylindric call returned on an object that had the UV map of
\* that kind already and a mesh changed since.
C22_Witness ==
    /\ UvmapReturned /\ LastProjection \in {"Cubic", "Cylindric"}
    /\ last.pre.uvmap = rm.uvmap
    /\ last.pre.mesh.Points # rm.mesh.Points

(***************************************************************************)
(* The axis-normal test                                                    *)
(***************************************************************************)
\* The edge e, normalized, has a dot product with the unit Z vector within
\* 1e-5 of zero: e.z^2 * 10^10 <= e.x^2 + e.y^2 + e.z^2.
WithinTolerance(e) ==
    WideLeq(<<100 * e[3] * e[3], 0>>,
            WideAdd(WideAdd(WideSquare(e[1]), WideSquare(e[2])), WideSquare(e[3])))

\* The last helper call is _is_facet_normal_to_vector and it returned.
NormalTested ==
    ret.function = "_is_facet_normal_to_vector" /\ ret.value.result = "ok"

\* C23: _is_facet_normal_to_vector returns true if and only if the two
\* edges p2 - p1 and p3 - p1 of the facet, normalized, both have a dot
\* product with the axis within 1e-5 of zero; a facet with one such edge
\* only is regular.
C23_AxisNormalTest ==
    NormalTested =>
        LET f == ret.arguments[1]
            e2 == VecSub(f[2], f[1])
            e3 == VecSub(f[3], f[1])
        IN  /\ ret.value.value <=> (WithinTolerance(e2) /\ WithinTolerance(e3))
            /\ (WithinTolerance(e2) # WithinTolerance(e3)) => ret.value.value = FALSE

\* A facet was found normal with an edge off the plane z = 0 and within the
\* tolerance.
C23_Witness ==
    /\ NormalTested /\ ret.value.value = TRUE
    /\ VecSub(ret.arguments[1][2], ret.arguments[1][1]) = <<100000, 0, 1>>

(***************************************************************************)
(* The scale of the cylinder projection                                    *)
(***************************************************************************)
\* x^2 + y^2 of a point.
RadiusSquared(p) == p[1] * p[1] + p[2] * p[2]

\* The points whose x^2 + y^2 is within the integers of the checker.
NearAxis(points) ==
    \A j \in DOMAIN points : Abs(points[j][1]) < 32768 /\ Abs(points[j][2]) < 32768

\* C30: after a successful Cylindric call the UV of every point of the
\* regular sub-mesh is (atan2(x, y) * avg, z) / 1000 with avg the one average
\* of hypot(x, y) over all the points of the regular sub-mesh; when all
\* those points are at one whole distance R of the axis, avg is R.
C30_CylinderScale ==
    (UvmapReturned /\ LastProjection = "Cylindric") =>
        LET regular == RegularPoints(rm)
            xy == [j \in DOMAIN regular |-> <<regular[j][1], regular[j][2]>>]
            R == ISqrt(RadiusSquared(regular[1]))
        IN  \A i \in DOMAIN regular :
                /\ rm.uvmap.val[i] =
                       [kind |-> "cylinder", atan2 |-> xy[i],
                        radius |-> [hypot |-> xy, n |-> Len(regular)],
                        z |-> regular[i][3], den |-> 1000]
                /\ (/\ NearAxis(regular)
                    /\ \A j \in DOMAIN regular : RadiusSquared(regular[j]) = R * R) =>
                       LET avg == AvgRadiusValue(rm.uvmap.val[i].radius)
                       IN  avg.num = R * avg.den

\* A Cylindric call returned on a mesh whose regular points are at
\* different distances of the axis.
C30_Witness ==
    /\ UvmapReturned /\ LastProjection = "Cylindric"
    /\ NearAxis(RegularPoints(rm))
    /\ \E i, j \in DOMAIN RegularPoints(rm) :
          RadiusSquared(RegularPoints(rm)[i]) # RadiusSquared(RegularPoints(rm)[j])

\* A Cylindric call returned on a mesh whose regular points are all at the
\* same distance of the axis, not null.
C30_UniformRadius ==
    /\ UvmapReturned /\ LastProjection = "Cylindric"
    /\ NearAxis(RegularPoints(rm))
    /\ \A j \in DOMAIN RegularPoints(rm) :
          /\ RadiusSquared(RegularPoints(rm)[j]) = RadiusSquared(RegularPoints(rm)[1])
          /\ RadiusSquared(RegularPoints(rm)[j]) =
                 ISqrt(RadiusSquared(RegularPoints(rm)[j])) ^ 2
          /\ RadiusSquared(RegularPoints(rm)[j]) > 0

(***************************************************************************)
(* The plugin framework: listening and quitting                            *)
(***************************************************************************)
\* recv returns a message in this step.
RecvReturnsMessage ==
    /\ Len(listener'.returns) = Len(listener.returns) + 1
    /\ LastOf(listener'.returns) # None

\* The loop of listen has received a CLOSE message.
CloseReceived ==
    \E i \in DOMAIN listener.returns :
        listener.returns[i] # None /\ listener.returns[i][1] = "CLOSE"

\* Nothing of a message of the parent is in the connection.
NoIncoming == conn.msgs = <<>> /\ conn.partial = None

\* The last recv returned None.
ReturnedNone == listener.returns # <<>> /\ LastOf(listener.returns) = None

\* C24: every message that recv returns to the loop of listen with a verb
\* other than CLOSE is handed to cb_handle_message, and the loop goes on to
\* the next recv.
C24_Dispatch ==
    [][(RecvReturnsMessage /\ LastOf(listener'.returns)[1] # "CLOSE") =>
           /\ listener'.handled = Append(listener.handled, LastOf(listener'.returns))
           /\ listener'.pc = "recv"]_vars

\* The main thread has terminated the listener thread (listen_thread.terminate).
Terminated == listener.pc = "terminated"

\* C25: recv returns a message only when it has read it from the connection;
\* a recv entered when the socket is deactivated returns None and reads
\* nothing (the step that terminates a thread about to call recv is no step
\* of recv); a recv that waits on a deactivated socket with nothing incoming
\* eventually returns None.
C25_RecvBlocks ==
    /\ [][RecvReturnsMessage =>
              /\ conn.msgs # <<>>
              /\ LastOf(listener'.returns) = Head(conn.msgs)
              /\ conn'.msgs = Tail(conn.msgs)]_vars
    /\ [][(listener.pc = "recv" /\ ~active /\ listener' # listener /\ ~Terminated') =>
              /\ listener'.returns = Append(listener.returns, None)
              /\ conn' = conn]_vars
    /\ [][Len(listener'.returns) > Len(listener.returns) =>
              listener.pc \in {"recv", "wait", "read"}]_vars
    /\ ((~active /\ listener.pc = "wait" /\ NoIncoming)
            ~> (ReturnedNone \/ ~NoIncoming))

\* A recv that waited on an active socket has returned None after the main
\* thread deactivated the socket, the connection still open.
C25_Witness ==
    /\ ReturnedNone /\ Len(listener.returns) = 1
    /\ listener.elapsed
    /\ ~conn.eof
    /\ app.calls # <<>>

\* C26: on a CLOSE message the loop of listen deactivates the socket and
\* emits quit_signal, once; from then on it reads and handles no message,
\* and it ends.
C26_CloseHandling ==
    /\ [][(RecvReturnsMessage /\ LastOf(listener'.returns)[1] = "CLOSE") =>
              /\ ~active'
              /\ app'.emitted = app.emitted + 1]_vars
    /\ [](CloseReceived => ~active /\ app.emitted = 1)
    /\ [][CloseReceived =>
              /\ listener'.returns \in {listener.returns, Append(listener.returns, None)}
              /\ listener'.handled = listener.handled
              /\ \/ conn'.msgs = conn.msgs
                 \/ \E message \in ParentMessages : conn'.msgs = Append(conn.msgs, message)]_vars
    /\ (CloseReceived ~> (listener.pc = "finished" \/ Terminated))

\* The loop has ended after a CLOSE and a message that came after it is left
\* in the connection.
C26_Witness ==
    /\ CloseReceived /\ listener.pc = "finished"
    /\ conn.msgs # <<>>

\* The call is among the calls close_and_quit has made.
Called(name) == \E i \in DOMAIN app.calls : app.calls[i] = name

\* The call a comes before the call b in the calls of close_and_quit.
CalledBefore(a, b) ==
    \E i, j \in DOMAIN app.calls : i < j /\ app.calls[i] = a /\ app.calls[j] = b

\* C27: close_and_quit deactivates receiving before it waits for the
\* listener thread, waits 5000 ms at most, terminates the thread only when
\* the wait has timed out, and closes the windows and quits after the
\* thread has finished or has been terminated.
C27_QuitOrdering ==
    /\ [](Called("listen_thread.wait") =>
              ~active /\ CalledBefore("stop_recv", "listen_thread.wait"))
    /\ [](app.waited <= WaitTicks)
    /\ [][(Called("listen_thread.terminate")' /\ ~Called("listen_thread.terminate")) =>
              app.waited = WaitTicks /\ listener.pc # "finished"]_vars
    /\ [](Called("listen_thread.terminate") =>
              CalledBefore("listen_thread.wait", "listen_thread.terminate"))
    /\ [](Called("closeAllWindows") =>
              /\ listener.pc \in {"finished", "terminated"}
              /\ CalledBefore("listen_thread.wait", "closeAllWindows")
              /\ CalledBefore("closeAllWindows", "quit")
              /\ Called("listen_thread.terminate") =>
                     CalledBefore("listen_thread.terminate", "closeAllWindows"))
    /\ []((app.windows = "closed" \/ app.pc = "exited") => Called("closeAllWindows"))

\* The application has quit after it terminated a listener thread that was
\* held by a message that never came whole.
C27_Witness ==
    /\ app.pc = "exited" /\ listener.pc = "terminated"
    /\ Called("listen_thread.terminate")

(***************************************************************************)
(* The fallback material                                                   *)
(***************************************************************************)
\* The components of the color are numbers in [0, 1].
InUnitRange(color) ==
    \A c \in {color.r, color.g, color.b} :
        "float" \in DOMAIN c /\ 0 <= c.float /\ c.float <= 10

\* C28: for a shader type that is no key of MATERIALS, _write_material raises
\* nothing and returns the fallback snippet, with the default color of the
\* material when its components are numbers in [0, 1] and with 1, 1, 1
\* otherwise.
C28_FallbackMaterial ==
    (/\ ret.function = "_write_material"
     /\ ret.arguments[2].shadertype \notin MATERIALS(args.renderer)) =>
        LET color == ret.arguments[2].default_color
            snippet == ret.value.snippet
        IN  /\ ret.value.raised = "none"
            /\ snippet.material = "fallback"
            /\ <<snippet.r, snippet.g, snippet.b>> =
                  IF InUnitRange(color) THEN <<color.r, color.g, color.b>>
                  ELSE <<[int |-> 1], [int |-> 1], [int |-> 1]>>

(***************************************************************************)
(* The merge of the light groups                                           *)
(***************************************************************************)
\* The lights of the light groups of the children, group after group.
RECURSIVE LightsOf(_)
LightsOf(children) ==
    IF children = <<>> THEN <<>>
    ELSE (IF children[1].type = "LIGHTS" THEN children[1].children ELSE <<>>)
             \o LightsOf(Tail(children))

\* The number of times x is in seq.
Count(x, seq) == Cardinality({i \in DOMAIN seq : seq[i] = x})

\* C29: the merge loop ends; then no child of type LIGHTS is left in the
\* children of the world, the children left are those that are no light
\* group, in their order, and the children of lightsManager are those it
\* had followed by the lights of every light group, each as many times as
\* the groups had it.
C29_LightGroupMerge ==
    /\ <>(ret.pc = "done")
    /\ [](ret.pc = "done" =>
            LET added == SubSeq(ret.lightsmanager_children,
                                Len(args.lightsManager) + 1,
                                Len(ret.lightsmanager_children))
            IN  /\ \A i \in DOMAIN ret.world_children :
                      ret.world_children[i].type # "LIGHTS"
                /\ ret.world_children =
                      SelectSeq(args.world, LAMBDA child : child.type # "LIGHTS")
                /\ SubSeq(ret.lightsmanager_children, 1, Len(args.lightsManager))
                      = args.lightsManager
                /\ Len(added) = Len(LightsOf(args.world))
                /\ \A i \in DOMAIN added :
                      Count(added[i], added) = Count(added[i], LightsOf(args.world)))

\* The merge is done on a world with a light group before an object and
\* another light group after it, both with lights.
C29_Witness ==
    /\ ret.pc = "done"
    /\ \E i, j, k \in DOMAIN args.world :
          /\ i < j /\ j < k
          /\ args.world[i].type = "LIGHTS" /\ args.world[i].children # <<>>
          /\ args.world[j].type # "LIGHTS"
          /\ args.world[k].type = "LIGHTS" /\ args.world[k].children # <<>>
====
